---- MODULE Spec2Model ----
(***************************************************************************)
(* A model of the media-reference conformance pipeline of                 *)
(* opal_backend_shared/conform_body.py: conform_body walks the contents   *)
(* of a request body, _transform_part rewrites each part, and             *)
(* _upload_gemini_file performs the upload a part may need; and of        *)
(* expand_veo_error of opal_backend_shared/functions/video.py, which      *)
(* reads the support codes of an error message.                           *)
(*                                                                         *)
(* Strings are TLA+ strings; a character is a string of length one.       *)
(* A dict is a function over its keys (a record), a list is a sequence,   *)
(* and an optional value is a sequence of length zero or one.             *)
(***************************************************************************)
EXTENDS Integers, Sequences, FiniteSets, TLC

(***************************************************************************)
(* Bounds of the model.                                                    *)
(***************************************************************************)
\* Contents of a body of the structural specification (Spec).
MaxContents == 2
\* Parts of a body of Spec, counted over all its contents.
MaxParts == 2
\* Parts of the single content of a body of SpecHandles.
MaxHandleParts == 1

(***************************************************************************)
(* Python's str methods.                                                   *)
(***************************************************************************)
CharAt(s, i) == SubSeq(s, i, i)

SetMax(S) == CHOOSE m \in S : \A x \in S : x <= m

\* s.startswith(p)
StartsWith(s, p) == Len(s) >= Len(p) /\ SubSeq(s, 1, Len(p)) = p

\* s.endswith(p)
EndsWith(s, p) == Len(s) >= Len(p) /\ SubSeq(s, Len(s) - Len(p) + 1, Len(s)) = p

\* s[:n]
Truncate(s, n) == IF Len(s) <= n THEN s ELSE SubSeq(s, 1, n)

\* s.lstrip(ch): every leading ch removed
LStrip(s, ch) ==
  LET keep == {i \in 1..Len(s) : CharAt(s, i) # ch}
  IN  IF keep = {} THEN "" ELSE SubSeq(s, CHOOSE i \in keep : \A j \in keep : i <= j, Len(s))

\* s.rstrip(ch): every trailing ch removed
RStrip(s, ch) ==
  LET keep == {i \in 1..Len(s) : CharAt(s, i) # ch}
  IN  IF keep = {} THEN "" ELSE SubSeq(s, 1, SetMax(keep))

\* s.rsplit(sep, 1)[-1] for a one-character sep: what follows the last sep
RSplitLast(s, sep) ==
  LET at == {i \in 1..Len(s) : CharAt(s, i) = sep}
  IN  IF at = {} THEN s ELSE SubSeq(s, SetMax(at) + 1, Len(s))

\* dict.get(key, default)
Get(d, key, default) == IF key \in DOMAIN d THEN d[key] ELSE default

\* {**d, key: value}
With(d, key, value) == [k \in DOMAIN d \cup {key} |-> IF k = key THEN value ELSE d[k]]

\* Python truthiness of a str or a list: not empty
Truthy(v) == Len(v) > 0

(***************************************************************************)
(* Module constants of conform_body.py.                                    *)
(***************************************************************************)
GENAI_API_BASE == "https://generativelanguage.googleapis.com/v1beta/"
GENAI_FILES_PREFIX == GENAI_API_BASE \o "/files/"
DRIVE_URL_PREFIX == "drive:"
NOTEBOOKLM_URL_PREFIX == "https://notebooklm.google.com/notebook/"
UPLOAD_GEMINI_FILE_ENDPOINT == "/v1beta1/uploadGeminiFile"

(***************************************************************************)
(* The regular expressions of conform_body.py, as re.sub and re.match      *)
(* apply them.                                                             *)
(***************************************************************************)
\* _DRIVE_PREFIX_RE.sub("", s), the pattern being ^drive:/+ : the match is
\* "drive:" and the one or more slashes after it; without a slash after
\* "drive:" nothing matches and s is returned whole.
_DRIVE_PREFIX_RE_sub(s) ==
  IF StartsWith(s, "drive:/") THEN LStrip(SubSeq(s, Len("drive:") + 1, Len(s)), "/") ELSE s

\* [0-9a-f]
HexLower == {"0", "1", "2", "3", "4", "5", "6", "7", "8", "9", "a", "b", "c", "d", "e", "f"}

\* [0-9a-f]{8}-[0-9a-f]{4}-[0-9a-f]{4}-[0-9a-f]{4}-[0-9a-f]{12} against the whole of u
UuidPatternMatches(u) ==
  /\ Len(u) = 36
  /\ \A i \in 1..36 :
       IF i \in {9, 14, 19, 24} THEN CharAt(u, i) = "-" ELSE CharAt(u, i) \in HexLower

BlobPathSegment == "/board/blobs/"

\* ^https?://.+/board/blobs/<uuid> against the whole of s: the uuid is the last
\* 36 characters, /board/blobs/ the 13 before them, and .+ is one or more
\* characters, none a line feed, after the scheme.
BlobPatternFullMatch(s) ==
  LET n      == Len(s)
      uuidAt == n - 36 + 1
      segAt  == uuidAt - Len(BlobPathSegment)
      head   == SubSeq(s, 1, segAt - 1)
      scheme == IF StartsWith(head, "https://") THEN "https://"
                ELSE IF StartsWith(head, "http://") THEN "http://" ELSE ""
  IN  /\ segAt >= 1
      /\ UuidPatternMatches(SubSeq(s, uuidAt, n))
      /\ SubSeq(s, segAt, uuidAt - 1) = BlobPathSegment
      /\ scheme # ""
      /\ Len(head) > Len(scheme)
      /\ \A i \in (Len(scheme) + 1)..Len(head) : CharAt(head, i) # "\n"

\* _BLOB_UUID_RE.match(s): $ matches at the end of s and also just before a
\* line feed that ends s.
_BLOB_UUID_RE_match(s) ==
  \/ BlobPatternFullMatch(s)
  \/ /\ EndsWith(s, "\n")
     /\ BlobPatternFullMatch(SubSeq(s, 1, Len(s) - 1))

\* _maybe_blob(handle): the blob id in a sequence, or the empty sequence for None
_maybe_blob(handle) ==
  IF _BLOB_UUID_RE_match(handle) THEN <<RSplitLast(handle, "/")>> ELSE <<>>

(***************************************************************************)
(* JSON values and json.dumps. A value is a record tagged by its type:     *)
(* null, a bool, an int, a str, a list of values, or an object (a dict),   *)
(* whose members keep their insertion order.                               *)
(***************************************************************************)
JNull == [t |-> "null"]
JBool(b) == [t |-> "bool", b |-> b]
JInt(n) == [t |-> "int", n |-> n]
JStr(s) == [t |-> "str", s |-> s]
JList(items) == [t |-> "list", items |-> items]
JObj(members) == [t |-> "obj", members |-> members]
JMember(k, v) == [k |-> k, v |-> v]

Digits == "0123456789"

RECURSIVE NatToStr(_)
NatToStr(n) ==
  IF n < 10 THEN CharAt(Digits, n + 1)
  ELSE NatToStr(n \div 10) \o CharAt(Digits, (n % 10) + 1)

\* str(n) for an int
IntToStr(n) == IF n < 0 THEN "-" \o NatToStr(0 - n) ELSE NatToStr(n)

\* The escape json.dumps writes for one character of a str
JsonEscapeChar(c) ==
  IF c = "\"" THEN "\\\""
  ELSE IF c = "\\" THEN "\\\\"
  ELSE IF c = "\n" THEN "\\n"
  ELSE IF c = "\t" THEN "\\t"
  ELSE c

RECURSIVE JsonEscape(_)
JsonEscape(s) ==
  IF Len(s) = 0 THEN "" ELSE JsonEscapeChar(CharAt(s, 1)) \o JsonEscape(Tail(s))

JsonQuote(s) == "\"" \o JsonEscape(s) \o "\""

\* sep.join(strs)
RECURSIVE Join(_, _)
Join(strs, sep) ==
  IF Len(strs) = 0 THEN ""
  ELSE IF Len(strs) = 1 THEN strs[1]
  ELSE strs[1] \o sep \o Join(Tail(strs), sep)

\* json.dumps(v) with its default separators ", " and ": "
RECURSIVE JsonDumps(_)
JsonDumps(v) ==
  CASE v.t = "null" -> "null"
    [] v.t = "bool" -> (IF v.b THEN "true" ELSE "false")
    [] v.t = "int"  -> IntToStr(v.n)
    [] v.t = "str"  -> JsonQuote(v.s)
    [] v.t = "list" ->
         "[" \o Join([i \in 1..Len(v.items) |-> JsonDumps(v.items[i])], ", ") \o "]"
    [] v.t = "obj"  ->
         "{" \o Join([i \in 1..Len(v.members) |->
                        JsonQuote(v.members[i].k) \o ": " \o JsonDumps(v.members[i].v)],
                     ", ") \o "}"

(***************************************************************************)
(* json.loads, for the texts json.dumps writes. Each reader returns the    *)
(* value it read and the text left after it.                               *)
(***************************************************************************)
\* The character an escape stands for
JsonUnescapeChar(e) ==
  IF e = "n" THEN "\n"
  ELSE IF e = "t" THEN "\t"
  ELSE e

\* s without its leading blanks
RECURSIVE SkipBlanks(_)
SkipBlanks(s) ==
  IF Len(s) > 0 /\ CharAt(s, 1) = " " THEN SkipBlanks(Tail(s)) ELSE s

\* The str whose text begins after an opening quote
RECURSIVE ReadString(_)
ReadString(s) ==
  LET c == CharAt(s, 1)
  IN  IF c = "\"" THEN [v |-> "", rest |-> Tail(s)]
      ELSE IF c = "\\"
        THEN LET r == ReadString(SubSeq(s, 3, Len(s)))
             IN  [v |-> JsonUnescapeChar(CharAt(s, 2)) \o r.v, rest |-> r.rest]
      ELSE LET r == ReadString(Tail(s))
           IN  [v |-> c \o r.v, rest |-> r.rest]

\* The natural number whose digits begin s, after the digits of value n
RECURSIVE ReadNat(_, _)
ReadNat(s, n) ==
  IF Len(s) > 0 /\ \E d \in 1..10 : CharAt(Digits, d) = CharAt(s, 1)
  THEN ReadNat(Tail(s), 10 * n + (CHOOSE d \in 0..9 : CharAt(Digits, d + 1) = CharAt(s, 1)))
  ELSE [v |-> n, rest |-> s]

RECURSIVE ReadValue(_)
RECURSIVE ReadItems(_, _)
RECURSIVE ReadMembers(_, _)

\* The items of a list after its "[" or after a ",", following items
ReadItems(s, items) ==
  LET t == SkipBlanks(s)
  IN  IF CharAt(t, 1) = "]" THEN [v |-> JList(items), rest |-> Tail(t)]
      ELSE LET r == ReadValue(t)
               u == SkipBlanks(r.rest)
           IN  IF CharAt(u, 1) = ","
               THEN ReadItems(Tail(u), Append(items, r.v))
               ELSE [v |-> JList(Append(items, r.v)), rest |-> Tail(u)]

\* The members of an object after its "{" or after a ",", following members
ReadMembers(s, members) ==
  LET t == SkipBlanks(s)
  IN  IF CharAt(t, 1) = "}" THEN [v |-> JObj(members), rest |-> Tail(t)]
      ELSE LET k == ReadString(Tail(t))
               r == ReadValue(Tail(SkipBlanks(k.rest)))
               u == SkipBlanks(r.rest)
               member == JMember(k.v, r.v)
           IN  IF CharAt(u, 1) = ","
               THEN ReadMembers(Tail(u), Append(members, member))
               ELSE [v |-> JObj(Append(members, member)), rest |-> Tail(u)]

ReadValue(s) ==
  LET t == SkipBlanks(s)
      c == CharAt(t, 1)
  IN  IF c = "n" THEN [v |-> JNull, rest |-> SubSeq(t, 5, Len(t))]
      ELSE IF c = "t" THEN [v |-> JBool(TRUE), rest |-> SubSeq(t, 5, Len(t))]
      ELSE IF c = "f" THEN [v |-> JBool(FALSE), rest |-> SubSeq(t, 6, Len(t))]
      ELSE IF c = "\"" THEN LET r == ReadString(Tail(t)) IN [v |-> JStr(r.v), rest |-> r.rest]
      ELSE IF c = "[" THEN ReadItems(Tail(t), <<>>)
      ELSE IF c = "{" THEN ReadMembers(Tail(t), <<>>)
      ELSE IF c = "-"
        THEN LET r == ReadNat(Tail(t), 0) IN [v |-> JInt(0 - r.v), rest |-> r.rest]
      ELSE LET r == ReadNat(t, 0) IN [v |-> JInt(r.v), rest |-> r.rest]

\* json.loads(text)
JsonLoads(text) == ReadValue(text).v

(***************************************************************************)
(* _transform_part: the rule one part falls under. The outcome is what    *)
(* the coroutine does next: return a part, raise, or call                 *)
(* _upload_gemini_file with a request.                                    *)
(***************************************************************************)
Return(part) == [do |-> "return", part |-> part]
Raise(type, message) == [do |-> "raise", error |-> [type |-> type, message |-> message]]
Upload(request) == [do |-> "upload", request |-> request]

\* A variant of the storedData rules that looks for a blob handle first
StoredDataRuleBlobFirst(part) ==
  LET stored == part.storedData
      handle == Get(stored, "handle", "")
      blob_id == _maybe_blob(handle)
  IN  IF blob_id # <<>> /\ Truthy(blob_id[1]) THEN Upload([blobId |-> blob_id[1]])
      ELSE IF StartsWith(handle, NOTEBOOKLM_URL_PREFIX) THEN Return([text |-> handle])
      ELSE IF StartsWith(handle, DRIVE_URL_PREFIX)
        THEN Upload([driveFileId |-> _DRIVE_PREFIX_RE_sub(handle)])
      ELSE Raise("ValueError", "Unknown storedData handle: \"" \o handle \o "\"")

\* A variant of the storedData rules that returns a part of unknown handle as it is
StoredDataRulePassUnknown(part) ==
  LET stored == part.storedData
      handle == Get(stored, "handle", "")
      blob_id == _maybe_blob(handle)
  IN  IF StartsWith(handle, NOTEBOOKLM_URL_PREFIX) THEN Return([text |-> handle])
      ELSE IF StartsWith(handle, DRIVE_URL_PREFIX)
        THEN Upload([driveFileId |-> _DRIVE_PREFIX_RE_sub(handle)])
      ELSE IF blob_id # <<>> /\ Truthy(blob_id[1]) THEN Upload([blobId |-> blob_id[1]])
      ELSE Return(part)

\* The storedData rules (section 2 of _transform_part)
StoredDataRule(part) ==
  LET stored == part.storedData
      handle == Get(stored, "handle", "")
      blob_id == _maybe_blob(handle)
  IN  IF StartsWith(handle, NOTEBOOKLM_URL_PREFIX) THEN Return([text |-> handle])
      ELSE IF StartsWith(handle, DRIVE_URL_PREFIX)
        THEN Upload([driveFileId |-> _DRIVE_PREFIX_RE_sub(handle)])
      ELSE IF blob_id # <<>> /\ Truthy(blob_id[1]) THEN Upload([blobId |-> blob_id[1]])
      ELSE Raise("ValueError", "Unknown storedData handle: \"" \o handle \o "\"")

\* A variant of the fileData rules that sends driveResourceKey for every Drive URI
FileDataRuleKeyAlways(part) ==
  LET file_data == part.fileData
      file_uri == Get(file_data, "fileUri", "")
      mime_type == Get(file_data, "mimeType", "")
      drive_file_id == _DRIVE_PREFIX_RE_sub(file_uri)
      resource_key == Get(file_data, "resourceKey", "")
  IN  IF StartsWith(file_uri, GENAI_FILES_PREFIX) THEN Return(part)
      ELSE IF mime_type = "video/mp4" THEN Return(part)
      ELSE IF StartsWith(file_uri, DRIVE_URL_PREFIX)
        THEN Upload([driveFileId |-> drive_file_id, driveResourceKey |-> resource_key])
      ELSE Raise("ValueError", "Unknown fileData URI: \"" \o file_uri \o "\"")

\* A variant of the fileData rules that looks for drive: before video/mp4
FileDataRuleDriveFirst(part) ==
  LET file_data == part.fileData
      file_uri == Get(file_data, "fileUri", "")
      mime_type == Get(file_data, "mimeType", "")
      drive_file_id == _DRIVE_PREFIX_RE_sub(file_uri)
      resource_key == Get(file_data, "resourceKey", "")
  IN  IF StartsWith(file_uri, GENAI_FILES_PREFIX) THEN Return(part)
      ELSE IF StartsWith(file_uri, DRIVE_URL_PREFIX)
        THEN Upload(IF Truthy(resource_key)
                    THEN [driveFileId |-> drive_file_id, driveResourceKey |-> resource_key]
                    ELSE [driveFileId |-> drive_file_id])
      ELSE IF mime_type = "video/mp4" THEN Return(part)
      ELSE Raise("ValueError", "Unknown fileData URI: \"" \o file_uri \o "\"")

\* A variant of the fileData rules without the video/mp4 rule
FileDataRuleNoVideo(part) ==
  LET file_data == part.fileData
      file_uri == Get(file_data, "fileUri", "")
      drive_file_id == _DRIVE_PREFIX_RE_sub(file_uri)
      resource_key == Get(file_data, "resourceKey", "")
  IN  IF StartsWith(file_uri, GENAI_FILES_PREFIX) THEN Return(part)
      ELSE IF StartsWith(file_uri, DRIVE_URL_PREFIX)
        THEN Upload(IF Truthy(resource_key)
                    THEN [driveFileId |-> drive_file_id, driveResourceKey |-> resource_key]
                    ELSE [driveFileId |-> drive_file_id])
      ELSE Raise("ValueError", "Unknown fileData URI: \"" \o file_uri \o "\"")

\* The fileData rules (section 3 of _transform_part)
FileDataRule(part) ==
  LET file_data == part.fileData
      file_uri == Get(file_data, "fileUri", "")
      mime_type == Get(file_data, "mimeType", "")
      drive_file_id == _DRIVE_PREFIX_RE_sub(file_uri)
      resource_key == Get(file_data, "resourceKey", "")
  IN  IF StartsWith(file_uri, GENAI_FILES_PREFIX) THEN Return(part)
      ELSE IF mime_type = "video/mp4" THEN Return(part)
      ELSE IF StartsWith(file_uri, DRIVE_URL_PREFIX)
        THEN Upload(IF Truthy(resource_key)
                    THEN [driveFileId |-> drive_file_id, driveResourceKey |-> resource_key]
                    ELSE [driveFileId |-> drive_file_id])
      ELSE Raise("ValueError", "Unknown fileData URI: \"" \o file_uri \o "\"")

\* A variant of _transform_part that looks for json last
TransformPartJsonLast(part) ==
  IF "storedData" \in DOMAIN part THEN StoredDataRule(part)
  ELSE IF "fileData" \in DOMAIN part THEN FileDataRule(part)
  ELSE IF "json" \in DOMAIN part THEN Return([text |-> JsonDumps(part.json)])
  ELSE Return(part)

_transform_part(part) ==
  IF "json" \in DOMAIN part THEN Return([text |-> JsonDumps(part.json)])
  ELSE IF "storedData" \in DOMAIN part THEN StoredDataRule(part)
  ELSE IF "fileData" \in DOMAIN part THEN FileDataRule(part)
  ELSE Return(part)

(***************************************************************************)
(* _upload_gemini_file: the request it sends and what it makes of the      *)
(* response.                                                               *)
(***************************************************************************)
\* url
UploadUrl(upstream_base_) == RStrip(upstream_base_, "/") \o UPLOAD_GEMINI_FILE_ENDPOINT

\* augmented_request
AugmentedRequest(request, access_token_) == With(request, "accessToken", access_token_)

\* A variant that sets the Origin header whatever origin is
UploadHeadersOriginAlways(access_token_, origin_) ==
  [k \in {"Content-Type", "Authorization", "Origin"} |->
     IF k = "Content-Type" THEN "application/json"
     ELSE IF k = "Authorization" THEN "Bearer " \o access_token_
     ELSE origin_]

\* headers
UploadHeaders(access_token_, origin_) ==
  LET base == [k \in {"Content-Type", "Authorization"} |->
                 IF k = "Content-Type" THEN "application/json"
                 ELSE "Bearer " \o access_token_]
  IN  IF Truthy(origin_) THEN With(base, "Origin", origin_) ELSE base

\* The arguments of client.post
PostCall(request, access_token_, upstream_base_, origin_) ==
  [url     |-> UploadUrl(upstream_base_),
   json    |-> AugmentedRequest(request, access_token_),
   headers |-> UploadHeaders(access_token_, origin_)]

\* A variant that lets every status through, as if raise_for_status were not called
RaiseForStatusNever(response) == FALSE

\* response.raise_for_status() raises
RaiseForStatusRaises(response) == response.status_code >= 400

\* A variant that logs the whole response body
UploadErrorLogWholeBody(response, augmented_request) ==
  [level    |-> "error",
   status   |-> response.status_code,
   reason   |-> response.reason_phrase,
   request  |-> augmented_request,
   response |-> response.text]

\* The logger.error call made for a response of status >= 400
UploadErrorLog(response, augmented_request) ==
  [level    |-> "error",
   status   |-> response.status_code,
   reason   |-> response.reason_phrase,
   request  |-> augmented_request,
   response |-> Truncate(response.text, 500)]

\* file_url: made absolute when it is not empty and does not start with "http"
AbsoluteFileUrl(file_url) ==
  IF Truthy(file_url) /\ ~StartsWith(file_url, "http")
  THEN GENAI_API_BASE \o LStrip(file_url, "/")
  ELSE file_url

\* The part returned for the response's JSON object
UploadedPart(data) ==
  [fileData |-> [fileUri  |-> AbsoluteFileUrl(Get(data, "fileUrl", "")),
                 mimeType |-> Get(data, "mimeType", "")]]

\* What _upload_gemini_file does with a response: raise_for_status, then
\* response.json(), which raises when the body is not JSON, then the part
UploadOutcome(response) ==
  IF RaiseForStatusRaises(response)
    THEN Raise("HTTPStatusError", response.reason_phrase)
  ELSE IF response.json = <<>> THEN Raise("JSONDecodeError", response.text)
  ELSE Return(UploadedPart(response.json[1]))

\* The log after the response: an entry is added for a status >= 400
LogAfter(entries, response, augmented_request) ==
  IF response.status_code >= 400
  THEN Append(entries, UploadErrorLog(response, augmented_request))
  ELSE entries

(***************************************************************************)
(* The inputs the model draws from.                                        *)
(***************************************************************************)
BlobUuid == "12345678-1234-1234-1234-123456789abc"
BlobUuidUpper == "12345678-1234-1234-1234-123456789ABC"

StoredData(handle, mime) == [storedData |-> [handle |-> handle, mimeType |-> mime]]
FileData(uri, mime) == [fileData |-> [fileUri |-> uri, mimeType |-> mime]]
FileDataWithKey(uri, mime, key) ==
  [fileData |-> [fileUri |-> uri, mimeType |-> mime, resourceKey |-> key]]

\* The parts of the bodies of Spec: one of each way a part can go.
CoreParts ==
  { [text |-> "look at this"],
    [json |-> JObj(<<JMember("a", JInt(1))>>)],
    StoredData("drive:/d1", "image/jpeg"),
    StoredData("ftp://weird", "image/png") }

\* storedData handles of every kind, and of none
Handles ==
  { "https://notebooklm.google.com/notebook/abc123",
    "https://notebooklm.google.com/notebook/x/board/blobs/" \o BlobUuid,
    "https://notebooklm.google.com/notebooks/abc123",
    "drive:x", "drive:/x", "drive://x", "drive:///x", "drive:", "drive:/", "drive:/a/b",
    "Drive:/x",
    "https://h/board/blobs/" \o BlobUuid,
    "http://h/board/blobs/" \o BlobUuid,
    "https://h/x/board/blobs/" \o BlobUuid,
    "https://h/board/blobs/" \o BlobUuidUpper,
    "https://h/board/blobs/" \o BlobUuid \o "\n",
    "https://h/blobs/" \o BlobUuid,
    "https://board/blobs/" \o BlobUuid,
    "ftp://h/board/blobs/" \o BlobUuid,
    "https://example.com/foo",
    "ftp://weird",
    "" }

\* fileData parts of every kind, and of none
FileDataParts ==
  { FileData(GENAI_FILES_PREFIX \o "abc123", "image/png"),
    FileData(GENAI_FILES_PREFIX \o "abc123", "video/mp4"),
    FileData(GENAI_API_BASE \o "files/abc123", "image/png"),
    FileData("https://youtube.com/watch?v=xyz", "video/mp4"),
    FileData("https://youtube.com/watch?v=xyz", "video/webm"),
    FileData("drive:/vid", "video/mp4"),
    FileData("ftp://weird", "video/mp4"),
    FileData("ftp://weird", "image/png"),
    FileData("drive:x", "image/png"),
    FileData("drive:/x", "image/png"),
    FileData("drive://x", "image/png"),
    FileData("drive:///x", "image/png"),
    FileDataWithKey("drive:/rk-file", "image/png", "rk-abc"),
    FileDataWithKey("drive:/rk-file", "image/png", ""),
    [fileData |-> [mimeType |-> "image/png"]] }

\* Parts no rule rewrites, and parts with a json key
OtherParts ==
  { [text |-> "hello world"],
    [inlineData |-> [data |-> "base64==", mimeType |-> "image/png"]],
    [functionCall |-> [name |-> "f"]],
    [json |-> JObj(<<JMember("key", JStr("value")), JMember("n", JInt(42))>>)],
    [json |-> JList(<<JInt(-1), JNull, JBool(TRUE), JBool(FALSE), JStr("a\"b\\c\nd"),
                      JList(<<>>), JObj(<<>>),
                      JObj(<<JMember("k, \"q\": ", JList(<<JInt(10), JStr("")>>))>>)>>)],
    [json |-> JStr("drive:/x"), storedData |-> [handle |-> "drive:/x", mimeType |-> "image/png"]],
    [json |-> JNull, fileData |-> [fileUri |-> "ftp://weird", mimeType |-> "image/png"]] }

\* The parts of the bodies of SpecHandles
HandleParts ==
  {StoredData(h, "image/png") : h \in Handles}
    \cup {[storedData |-> [mimeType |-> "image/png"]]}
    \cup {[storedData |-> [handle |-> "drive:/rk-file", mimeType |-> "image/png",
                            resourceKey |-> "rk-abc"]]}
    \cup FileDataParts \cup OtherParts

\* The role of the i-th content
Role(i) == IF i % 2 = 1 THEN "user" ELSE "model"

\* A content: without a parts key, or with the parts given
ContentWithoutParts(i) == [role |-> Role(i)]
ContentWithParts(i, parts) == [role |-> Role(i), parts |-> parts]

\* The sequences of at most n parts of pool
PartSeqs(pool, n) == UNION {[1..k -> pool] : k \in 0..n}

\* The sequences of k contents, the first the i-th of its body, that hold at
\* most budget parts of pool between them
RECURSIVE ContentSeqs(_, _, _, _)
ContentSeqs(pool, i, k, budget) ==
  IF k = 0 THEN {<<>>}
  ELSE LET firsts == {ContentWithoutParts(i)}
                       \cup {ContentWithParts(i, ps) : ps \in PartSeqs(pool, budget)}
       IN  UNION { {<<c>> \o rest :
                      rest \in ContentSeqs(pool, i + 1, k - 1,
                                           budget - Len(Get(c, "parts", <<>>)))}
                   : c \in firsts }

\* The top-level keys a body has besides contents
OtherKeys ==
  { <<>>,
    [tools |-> "[{functionDeclarations: []}]", generationConfig |-> "{temperature: 0.5}"] }

\* other with contents added under its key
WithContents(other, contents) == With(other, "contents", contents)

\* The bodies of Spec
CoreBodies ==
  OtherKeys
    \cup {WithContents(o, cs) :
            o \in OtherKeys,
            cs \in UNION {ContentSeqs(CoreParts, 1, k, MaxParts) : k \in 0..MaxContents}}

\* The bodies of SpecHandles: a content of one or more parts, alone or before a
\* content without parts; and a body without contents
HandleBodies ==
  {[tools |-> "[]"]}
    \cup {[contents |-> <<ContentWithParts(1, ps)>> \o rest] :
            ps \in PartSeqs(HandleParts, MaxHandleParts) \ {<<>>},
            rest \in {<<>>, <<ContentWithoutParts(2)>>}}

AccessTokens == {"test-token", "tok-123"}
UpstreamBases == {"https://test.example.com", "https://test.example.com/"}
Origins == {"", "http://localhost:3000"}
\* client: None, or the caller's
Clients == {"None", "caller"}

(***************************************************************************)
(* The upload endpoint, as the callers of client.post can see it answer.   *)
(***************************************************************************)
\* The id the request names
RequestedId(json) == IF "blobId" \in DOMAIN json THEN json.blobId ELSE json.driveFileId

UploadedMimeType == "image/png"

\* s, n times over
RECURSIVE Repeat(_, _)
Repeat(s, n) == IF n = 0 THEN "" ELSE s \o Repeat(s, n - 1)

\* An error body of more than 500 characters
LongErrorPage == "Not Found: " \o Repeat("0123456789", 50)

OkResponse(data) ==
  [status_code |-> 200, reason_phrase |-> "OK", text |-> "{...}", json |-> <<data>>]

\* The answers to a POST: the file registered under a fileUrl that is
\* relative, relative with a leading slash, or absolute, of the https scheme
\* or of another; a JSON object without
\* a fileUrl; a body that is not JSON; an error status, with a JSON body or not.
Responses(post) ==
  LET id == RequestedId(post.json)
  IN  { OkResponse([fileUrl |-> "files/" \o id, mimeType |-> UploadedMimeType]),
        OkResponse([fileUrl |-> "/files/" \o id, mimeType |-> UploadedMimeType]),
        OkResponse([fileUrl |-> "https://files.example.com/" \o id,
                    mimeType |-> UploadedMimeType]),
        OkResponse([fileUrl |-> "gs://files-bucket/" \o id, mimeType |-> UploadedMimeType]),
        OkResponse([mimeType |-> UploadedMimeType]),
        [status_code |-> 200, reason_phrase |-> "OK", text |-> "<html>", json |-> <<>>],
        [status_code |-> 500, reason_phrase |-> "Internal Server Error",
         text |-> "{error: ...}", json |-> <<[error |-> "Something went wrong"]>>],
        [status_code |-> 404, reason_phrase |-> "Not Found",
         text |-> LongErrorPage, json |-> <<>>] }

(***************************************************************************)
(* functions/video.py: the Veo support codes and the operators             *)
(* expand_veo_error is made of.                                            *)
(***************************************************************************)
VIDEO_MODEL_NAME == "veo-3.1-generate-preview"

\* SUPPORT_CODES, as the set of its items
SUPPORT_CODES ==
  { <<58061214, "child">>, <<17301594, "child">>,
    <<29310472, "celebrity">>, <<15236754, "celebrity">>,
    <<64151117, "unsafe">>, <<42237218, "unsafe">>,
    <<62263041, "dangerous">>,
    <<57734940, "hate">>, <<22137204, "hate">>,
    <<74803281, "other">>, <<29578790, "other">>, <<42876398, "other">>,
    <<39322892, "face">>,
    <<92201652, "pii">>,
    <<89371032, "prohibited">>, <<49114662, "prohibited">>, <<72817394, "prohibited">>,
    <<90789179, "sexual">>, <<63429089, "sexual">>, <<43188360, "sexual">>,
    <<78610348, "toxic">>,
    <<61493863, "violence">>, <<56562880, "violence">>,
    <<32635315, "vulgar">> }

\* SUPPORT_CODES.get(code, default)
SUPPORT_CODES_get(code, default) ==
  IF \E item \in SUPPORT_CODES : item[1] = code
  THEN (CHOOSE item \in SUPPORT_CODES : item[1] = code)[2]
  ELSE default

SetMin(S) == CHOOSE x \in S : \A y \in S : x <= y

\* [\d, ]
CodeRunChars == {"0", "1", "2", "3", "4", "5", "6", "7", "8", "9", ",", " "}

\* _SUPPORT_CODE_RE.search(s), the pattern being Support codes: ([\d, ]+) : the
\* leftmost place where the marker has a character of the class after it, and
\* as group 1 the longest run of such characters from there. The group in a
\* sequence, or the empty sequence for None.
_SUPPORT_CODE_RE_search(s) ==
  LET marker == "Support codes: "
      m      == Len(marker)
      starts == {i \in 1..(Len(s) - m) :
                   /\ SubSeq(s, i, i + m - 1) = marker
                   /\ CharAt(s, i + m) \in CodeRunChars}
  IN  IF starts = {} THEN <<>>
      ELSE LET from == SetMin(starts) + m
               ends == {j \in from..Len(s) : \A k \in from..j : CharAt(s, k) \in CodeRunChars}
           IN  <<SubSeq(s, from, SetMax(ends))>>

\* s.split(sep), sep one character
RECURSIVE Split(_, _)
Split(s, sep) ==
  LET at == {i \in 1..Len(s) : CharAt(s, i) = sep}
  IN  IF at = {} THEN <<s>>
      ELSE <<SubSeq(s, 1, SetMin(at) - 1)>> \o Split(SubSeq(s, SetMin(at) + 1, Len(s)), sep)

\* s.strip(), for a string whose only white space is the space
Strip(s) == RStrip(LStrip(s, " "), " ")

DecimalDigits == {"0", "1", "2", "3", "4", "5", "6", "7", "8", "9"}

\* int(s) returns, for s of digits, commas and spaces and already stripped:
\* s is one or more digits
IntParses(s) == Len(s) > 0 /\ \A i \in 1..Len(s) : CharAt(s, i) \in DecimalDigits

DigitValue(c) == CHOOSE d \in 0..9 : CharAt(Digits, d + 1) = c

\* int(s), for such an s
RECURSIVE int(_)
int(s) ==
  IF Len(s) = 0 THEN 0
  ELSE 10 * int(SubSeq(s, 1, Len(s) - 1)) + DigitValue(CharAt(s, Len(s)))

\* The ValueError int(s) raises otherwise
IntError(s) ==
  [type |-> "ValueError", message |-> "invalid literal for int() with base 10: '" \o s \o "'"]

\* The items of match.group(1).split(","), stripped
StrippedItems(group) ==
  LET items == Split(group, ",") IN [i \in 1..Len(items) |-> Strip(items[i])]

LowerCaseLetters == "abcdefghijklmnopqrstuvwxyz"
Ord(c) == CHOOSE i \in 1..Len(LowerCaseLetters) : CharAt(LowerCaseLetters, i) = c

\* a < b, for two str of lower-case letters
RECURSIVE StrLess(_, _)
StrLess(a, b) ==
  IF Len(b) = 0 THEN FALSE
  ELSE IF Len(a) = 0 THEN TRUE
  ELSE IF Head(a) = Head(b) THEN StrLess(Tail(a), Tail(b))
  ELSE Ord(Head(a)) < Ord(Head(b))

\* sorted(S), for a set of such str
RECURSIVE Sorted(_)
Sorted(S) ==
  IF S = {} THEN <<>>
  ELSE LET first == CHOOSE x \in S : \A y \in S \ {x} : StrLess(x, y)
       IN  <<first>> \o Sorted(S \ {first})

\* The dict returned when reasons is not empty
SafetyError(error_message_, reasons_, model_) ==
  [error    |-> error_message_,
   metadata |-> [origin  |-> "server",
                 kind    |-> "safety",
                 reasons |-> Sorted(reasons_),
                 model   |-> model_]]

\* The dict returned otherwise
PlainError(error_message_) == [error |-> error_message_]

(***************************************************************************)
(* The state: one call of conform_body.                                    *)
(***************************************************************************)
VARIABLES
  body,                  \* the body argument
  access_token,          \* the access_token argument
  upstream_base,         \* the upstream_base argument
  client,                \* the client argument: "None" or "caller"
  origin,                \* the origin argument
  pc,                    \* where the coroutine is
  ci,                    \* the index of content in contents (from 1)
  pi,                    \* the index of part in parts (from 1)
  transformed_contents,
  new_parts,
  in_flight,             \* the POSTs awaiting their response
  posts,                 \* every POST sent, in the order sent
  opened,                \* httpx.AsyncClient objects _upload_gemini_file has made
  closed,                \* of those, the ones it has closed
  log,                   \* the logger.error entries
  result,                \* the body returned, if one was
  raised                 \* the exception raised, if one was

inputs == <<body, access_token, upstream_base, client, origin>>
locals == <<ci, pi, transformed_contents, new_parts>>
network == <<in_flight, posts, opened, closed, log>>

\* One call of expand_veo_error
VARIABLES
  error_message,         \* the error_message argument
  model,                 \* the model argument
  step,                  \* where the function is
  match,                 \* the group of the match, if there is one
  codes,
  code_i,                \* the index of code in codes (from 1)
  reasons,
  expanded,              \* the dict returned, if one was
  expand_raised          \* the exception raised, if one was

expansion ==
  <<error_message, model, step, match, codes, code_i, reasons, expanded, expand_raised>>

\* The callers of conform_body
VARIABLES
  earlier                \* the body an earlier call of conform_body returned, if one did

\* One call of the handler of a generation function
VARIABLES
  function,              \* the name of the function the handler belongs to
  args,                  \* the args argument
  config,                \* access_token, upstream_base and origin of the definition
  file_system,           \* whether add_part accepts a part, and the parts it added
  hpc,                   \* where the handler is
  statuses,              \* the values given to status_cb, in the order given
  translated,            \* what from_pidgin_string returned
  gemini_body,           \* the handler's body
  provider_calls,        \* the calls of stream_generate_content
  stream,                \* the chunks the stream has yet to yield, and how it ends
  result_texts,
  last_code_execution_error,
  step_calls,            \* the calls of execute_step
  returned,              \* the dict the handler returned, if it did
  handler_raised         \* the exception that left the handler, if one did

handlers ==
  <<function, args, config, file_system, hpc, statuses, translated, gemini_body,
    provider_calls, stream, result_texts, last_code_execution_error, step_calls,
    returned, handler_raised>>

callers == <<earlier, handlers>>

vars == <<inputs, pc, locals, network, result, raised, expansion, callers>>

\* No caller has called yet
NoHandler ==
  /\ function = ""
  /\ args = <<>>
  /\ config = <<>>
  /\ file_system = <<>>
  /\ hpc = "idle"
  /\ statuses = <<>>
  /\ translated = <<>>
  /\ gemini_body = <<>>
  /\ provider_calls = <<>>
  /\ stream = <<>>
  /\ result_texts = <<>>
  /\ last_code_execution_error = <<>>
  /\ step_calls = <<>>
  /\ returned = <<>>
  /\ handler_raised = <<>>

NoCaller ==
  /\ earlier = <<>>
  /\ NoHandler

\* expand_veo_error is not called
NoExpansion ==
  /\ error_message = ""
  /\ model = ""
  /\ step = "idle"
  /\ match = <<>>
  /\ codes = <<>>
  /\ code_i = 0
  /\ reasons = {}
  /\ expanded = <<>>
  /\ expand_raised = <<>>

\* conform_body is not called
NoConformCall ==
  /\ body = <<>>
  /\ access_token = ""
  /\ upstream_base = ""
  /\ client = "None"
  /\ origin = ""
  /\ pc = "idle"
  /\ ci = 0
  /\ pi = 0
  /\ transformed_contents = <<>>
  /\ new_parts = <<>>
  /\ in_flight = {}
  /\ posts = <<>>
  /\ opened = 0
  /\ closed = 0
  /\ log = <<>>
  /\ result = <<>>
  /\ raised = <<>>

InitCall ==
  /\ pc = "start"
  /\ ci = 0
  /\ pi = 0
  /\ transformed_contents = <<>>
  /\ new_parts = <<>>
  /\ in_flight = {}
  /\ posts = <<>>
  /\ opened = 0
  /\ closed = 0
  /\ log = <<>>
  /\ result = <<>>
  /\ raised = <<>>

\* The arguments of the calls of SpecHandles: each token, base, client and
\* origin in two of four calls (no rule reads more than one of them)
Arguments ==
  { <<"test-token", "https://test.example.com", "None", "">>,
    <<"test-token", "https://test.example.com/", "caller", "http://localhost:3000">>,
    <<"tok-123", "https://test.example.com/", "None", "">>,
    <<"tok-123", "https://test.example.com", "caller", "http://localhost:3000">> }

InitArguments ==
  \E a \in Arguments :
    /\ access_token = a[1] /\ a[1] \in AccessTokens
    /\ upstream_base = a[2] /\ a[2] \in UpstreamBases
    /\ client = a[3] /\ a[3] \in Clients
    /\ origin = a[4] /\ a[4] \in Origins

\* Spec varies the body and the client; SpecHandles varies every argument.
Init ==
  /\ body \in CoreBodies
  /\ access_token = "test-token"
  /\ upstream_base = "https://test.example.com"
  /\ client \in Clients
  /\ origin = ""
  /\ InitCall
  /\ NoExpansion
  /\ NoCaller

InitHandles ==
  /\ body \in HandleBodies
  /\ InitArguments
  /\ InitCall
  /\ NoExpansion
  /\ NoCaller

\* contents = body.get("contents", [])
contents == Get(body, "contents", <<>>)
\* content, inside the loop over contents
content == contents[ci]
\* parts = content.get("parts")
parts == Get(content, "parts", <<>>)
\* part, inside the loop over parts
part == parts[pi]

(***************************************************************************)
(* conform_body, one step of the coroutine at a time. It is suspended only *)
(* at the await of client.post (pc = "post").                              *)
(***************************************************************************)
\* A variant that returns a copy with its contents set
EarlyReturnCopy(b) == With(b, "contents", <<>>)

\* return body
EarlyReturn(b) == b

\* A variant that adds the part at the front
PrependPart(ps, transformed) == <<transformed>> \o ps

\* new_parts.append(transformed)
AppendPart(ps, transformed) == Append(ps, transformed)

\* {**content, "parts": new_parts}
RebuiltContent(c, ps) == With(c, "parts", ps)

\* A variant that writes the new parts into the content it was given:
\* content["parts"] = new_parts
InputContentOverwritten(b, i, ps) == [b EXCEPT !.contents[i].parts = ps]

\* What the body argument is after {**content, "parts": new_parts}: the dict
\* is a new one, and the content of the argument is as it was
InputAfterRebuild(b, i, ps) == b

\* A variant that returns the contents alone
RebuiltBodyContentsOnly(b, cs) == [contents |-> cs]

\* {**body, "contents": transformed_contents}
RebuiltBody(b, cs) == With(b, "contents", cs)

\* A variant that takes every call to own its client
own_client_always == TRUE

\* own_client = client is None
own_client == client = "None"

\* A variant that sends the request a second time
PostedTwice(sent, post) == Append(Append(sent, post), post)

\* response = await client.post(...): the request goes out, once
Posted(sent, post) == Append(sent, post)

\* The POST being awaited
Awaited == CHOOSE p \in in_flight : TRUE

\* posts with the outcome of its last POST written in
Answered(outcome, response) ==
  [posts EXCEPT ![Len(posts)] = [@ EXCEPT !.outcome = outcome, !.response = response]]

\* A variant without the finally clause
FinallySkipped == closed' = closed

\* finally: if own_client: await client.aclose()
Finally == closed' = IF own_client THEN closed + 1 ELSE closed

\* A variant that goes on to the next part while the POST is pending
PostNotAwaited == [pc |-> "part", pi |-> pi + 1]

\* transformed = await _transform_part(...), which awaits client.post: the
\* loop stays at the part until the POST is answered
PostAwaited == [pc |-> "post", pi |-> pi]

\* if not contents: return body
ReturnEarly ==
  /\ pc = "start"
  /\ ~Truthy(contents)
  /\ result' = <<EarlyReturn(body)>>
  /\ pc' = "done"
  /\ UNCHANGED <<expansion, callers, inputs, locals, network, raised>>

\* transformed_contents = []; for content in contents:
BeginContents ==
  /\ pc = "start"
  /\ Truthy(contents)
  /\ transformed_contents' = <<>>
  /\ ci' = 1
  /\ pc' = "content"
  /\ UNCHANGED <<expansion, callers, inputs, pi, new_parts, network, result, raised>>

\* if not parts: transformed_contents.append(content); continue
PassContent ==
  /\ pc = "content"
  /\ ci <= Len(contents)
  /\ ~Truthy(parts)
  /\ transformed_contents' = Append(transformed_contents, content)
  /\ ci' = ci + 1
  /\ UNCHANGED <<expansion, callers, inputs, pc, pi, new_parts, network, result, raised>>

\* new_parts = []; for part in parts:
BeginParts ==
  /\ pc = "content"
  /\ ci <= Len(contents)
  /\ Truthy(parts)
  /\ new_parts' = <<>>
  /\ pi' = 1
  /\ pc' = "part"
  /\ UNCHANGED <<expansion, callers, inputs, ci, transformed_contents, network, result, raised>>

\* transformed = await _transform_part(part, ...), returning without an upload
TransformReturns ==
  /\ pc = "part"
  /\ pi <= Len(parts)
  /\ _transform_part(part).do = "return"
  /\ new_parts' = AppendPart(new_parts, _transform_part(part).part)
  /\ pi' = pi + 1
  /\ UNCHANGED <<expansion, callers, inputs, pc, ci, transformed_contents, network, result, raised>>

\* _transform_part raises ValueError, which conform_body does not catch
TransformRaises ==
  /\ pc = "part"
  /\ pi <= Len(parts)
  /\ _transform_part(part).do = "raise"
  /\ raised' = <<_transform_part(part).error>>
  /\ pc' = "raised"
  /\ UNCHANGED <<expansion, callers, inputs, locals, network, result>>

\* _transform_part calls _upload_gemini_file, which makes its client if it was
\* given none and awaits client.post
UploadBegins ==
  /\ pc = "part"
  /\ pi <= Len(parts)
  /\ _transform_part(part).do = "upload"
  /\ LET call == PostCall(_transform_part(part).request, access_token, upstream_base, origin)
         post == [at       |-> <<ci, pi>>,
                  via      |-> IF own_client THEN "own" ELSE "caller",
                  url      |-> call.url,
                  json     |-> call.json,
                  headers  |-> call.headers,
                  outcome  |-> "pending",
                  response |-> <<>>]
     IN  /\ posts' = Posted(posts, post)
         /\ in_flight' = in_flight \cup {post}
  /\ opened' = IF own_client THEN opened + 1 ELSE opened
  /\ pc' = PostAwaited.pc
  /\ pi' = PostAwaited.pi
  /\ UNCHANGED <<expansion, callers, inputs, ci, transformed_contents, new_parts, closed, log,
                 result, raised>>

\* The response arrives and _upload_gemini_file returns the part made of it,
\* which _transform_part returns to the loop
UploadReturns ==
  /\ pc = "post"
  /\ \E response \in Responses(Awaited) :
       /\ UploadOutcome(response).do = "return"
       /\ log' = LogAfter(log, response, Awaited.json)
       /\ new_parts' = AppendPart(new_parts, UploadOutcome(response).part)
       /\ posts' = Answered("response", <<response>>)
  /\ in_flight' = in_flight \ {Awaited}
  /\ Finally
  /\ pi' = pi + 1
  /\ pc' = "part"
  /\ UNCHANGED <<expansion, callers, inputs, ci, transformed_contents, opened, result, raised>>

\* The response arrives and _upload_gemini_file raises: raise_for_status for an
\* error status, response.json() for a body that is not JSON
UploadRaises ==
  /\ pc = "post"
  /\ \E response \in Responses(Awaited) :
       /\ UploadOutcome(response).do = "raise"
       /\ log' = LogAfter(log, response, Awaited.json)
       /\ raised' = <<UploadOutcome(response).error>>
       /\ posts' = Answered("response", <<response>>)
  /\ in_flight' = in_flight \ {Awaited}
  /\ Finally
  /\ pc' = "raised"
  /\ UNCHANGED <<expansion, callers, inputs, locals, opened, result>>

\* client.post raises: the request got no response
UploadTransportError ==
  /\ pc = "post"
  /\ raised' = <<[type |-> "TransportError", message |-> "connection failed"]>>
  /\ posts' = Answered("transport error", <<>>)
  /\ in_flight' = in_flight \ {Awaited}
  /\ Finally
  /\ pc' = "raised"
  /\ UNCHANGED <<expansion, callers, inputs, locals, opened, log, result>>

\* The task is cancelled while it awaits client.post
UploadCancelled ==
  /\ pc = "post"
  /\ raised' = <<[type |-> "CancelledError", message |-> ""]>>
  /\ posts' = Answered("cancelled", <<>>)
  /\ in_flight' = in_flight \ {Awaited}
  /\ Finally
  /\ pc' = "raised"
  /\ UNCHANGED <<expansion, callers, inputs, locals, opened, log, result>>

\* transformed_contents.append({**content, "parts": new_parts})
EndParts ==
  /\ pc = "part"
  /\ pi > Len(parts)
  /\ transformed_contents' = Append(transformed_contents, RebuiltContent(content, new_parts))
  /\ body' = InputAfterRebuild(body, ci, new_parts)
  /\ ci' = ci + 1
  /\ pc' = "content"
  /\ UNCHANGED <<expansion, callers, access_token, upstream_base, client, origin, pi,
                 new_parts, network, result, raised>>

\* return {**body, "contents": transformed_contents}
ReturnBody ==
  /\ pc = "content"
  /\ ci > Len(contents)
  /\ result' = <<RebuiltBody(body, transformed_contents)>>
  /\ pc' = "done"
  /\ UNCHANGED <<expansion, callers, inputs, locals, network, raised>>

Next ==
  \/ ReturnEarly
  \/ BeginContents
  \/ PassContent
  \/ BeginParts
  \/ TransformReturns
  \/ TransformRaises
  \/ UploadBegins
  \/ UploadReturns
  \/ UploadRaises
  \/ UploadTransportError
  \/ UploadCancelled
  \/ EndParts
  \/ ReturnBody

\* Bodies of a few contents and parts, of one part of each kind
Spec == Init /\ [][Next]_vars

\* Bodies of one content, of parts with handles of every kind
SpecHandles == InitHandles /\ [][Next]_vars

(***************************************************************************)
(* conform_body called on the body an earlier call returned.               *)
(***************************************************************************)
\* The parts of the bodies of SpecAgain: one of each rule that returns a part,
\* one that is uploaded and one that is refused
AgainParts ==
  CoreParts
    \cup { FileData(GENAI_FILES_PREFIX \o "abc123", "image/png"),
           FileData("https://youtube.com/watch?v=xyz", "video/mp4"),
           StoredData(NOTEBOOKLM_URL_PREFIX \o "nb1", "text/plain") }

AgainBodies ==
  {[tools |-> "[]"]}
    \cup {[contents |-> <<ContentWithParts(1, ps)>> \o rest] :
            ps \in PartSeqs(AgainParts, MaxHandleParts) \ {<<>>},
            rest \in {<<>>, <<ContentWithoutParts(2)>>}}

InitAgain ==
  /\ body \in AgainBodies
  /\ access_token = "test-token"
  /\ upstream_base = "https://test.example.com"
  /\ client \in Clients
  /\ origin = ""
  /\ InitCall
  /\ NoExpansion
  /\ NoCaller

\* conform_body(result, ...): the body returned is the body of a second call
CallAgain ==
  /\ pc = "done"
  /\ result # <<>>
  /\ earlier = <<>>
  /\ earlier' = result
  /\ body' = result[1]
  /\ pc' = "start"
  /\ ci' = 0
  /\ pi' = 0
  /\ transformed_contents' = <<>>
  /\ new_parts' = <<>>
  /\ in_flight' = {}
  /\ posts' = <<>>
  /\ opened' = 0
  /\ closed' = 0
  /\ log' = <<>>
  /\ result' = <<>>
  /\ raised' = <<>>
  /\ UNCHANGED <<expansion, handlers, access_token, upstream_base, client, origin>>

NextAgain ==
  \/ Next
  \/ CallAgain

\* Two calls of conform_body, the second on what the first returned
SpecAgain == InitAgain /\ [][NextAgain]_vars

(***************************************************************************)
(* expand_veo_error, one step at a time, over error messages with and      *)
(* without the Support codes marker.                                       *)
(***************************************************************************)
\* What a message has after the marker: codes of the table and others, one or
\* several, in and out of order, of one category or of two, with and without
\* blanks; and runs that are no list of integers
CodeRuns ==
  { "58061214",
    "58061214, 90789179",
    "90789179,58061214",
    "58061214, 17301594",
    "58061214,58061214",
    "58061214, 90789179, 61493863",
    "32635315, 15236754, 92201652",
    "99999999",
    "74803281",
    "99999999, 11111111",
    "64151117, 99999999",
    "007",
    "58061214 , 90789179",
    "58061214, ",
    "58061214,",
    "12 34",
    "1,,2",
    ", ",
    " ",
    "",
    "x",
    "-5" }

\* What a message has before the marker, and after the run
MessagePrefixes == {"", "Blocked. ", "Content policy violation. "}
MessageSuffixes == {"", ".", " Please try again", "\nSupport codes: 58061214"}

\* Messages without the marker, or with it only after another that has no run
OtherMessages ==
  { "Generic error message",
    "",
    "Support codes:",
    "Support codes:58061214",
    "support codes: 58061214",
    "Support codes: x. Support codes: 58061214" }

ErrorMessages ==
  {prefix \o "Support codes: " \o run \o suffix :
     prefix \in MessagePrefixes, run \in CodeRuns, suffix \in MessageSuffixes}
    \cup OtherMessages

Models == {VIDEO_MODEL_NAME, "veo-3.0-generate-preview"}

InitExpand ==
  /\ error_message \in ErrorMessages
  /\ model \in Models
  /\ step = "search"
  /\ match = <<>>
  /\ codes = <<>>
  /\ code_i = 0
  /\ reasons = {}
  /\ expanded = <<>>
  /\ expand_raised = <<>>
  /\ NoConformCall
  /\ NoCaller

conform == <<inputs, pc, locals, network, result, raised>>

\* match = _SUPPORT_CODE_RE.search(error_message); reasons = set()
Search ==
  /\ step = "search"
  /\ match' = _SUPPORT_CODE_RE_search(error_message)
  /\ reasons' = {}
  /\ step' = IF match' # <<>> THEN "codes" ELSE "return"
  /\ UNCHANGED <<conform, callers, error_message, model, codes, code_i, expanded, expand_raised>>

\* codes = [int(c.strip()) for c in match.group(1).split(",")]; for code in codes:
ParseCodes ==
  /\ step = "codes"
  /\ LET items == StrippedItems(match[1])
     IN  /\ \A i \in 1..Len(items) : IntParses(items[i])
         /\ codes' = [i \in 1..Len(items) |-> int(items[i])]
  /\ code_i' = 1
  /\ step' = "code"
  /\ UNCHANGED <<conform, callers, error_message, model, match, reasons, expanded, expand_raised>>

\* int raises ValueError for the first item that is no integer, and
\* expand_veo_error does not catch it
ParseCodesRaises ==
  /\ step = "codes"
  /\ LET items == StrippedItems(match[1])
         bad   == {i \in 1..Len(items) : ~IntParses(items[i])}
     IN  /\ bad # {}
         /\ expand_raised' = <<IntError(items[SetMin(bad)])>>
  /\ step' = "raised"
  /\ UNCHANGED <<conform, callers, error_message, model, match, codes, code_i, reasons, expanded>>

\* reasons.add(SUPPORT_CODES.get(code, "other"))
AddReason ==
  /\ step = "code"
  /\ code_i <= Len(codes)
  /\ reasons' = reasons \cup {SUPPORT_CODES_get(codes[code_i], "other")}
  /\ code_i' = code_i + 1
  /\ UNCHANGED <<conform, callers, error_message, model, step, match, codes, expanded, expand_raised>>

\* The loop over codes ends
EndCodes ==
  /\ step = "code"
  /\ code_i > Len(codes)
  /\ step' = "return"
  /\ UNCHANGED <<conform, callers, error_message, model, match, codes, code_i, reasons,
                 expanded, expand_raised>>

\* if reasons: return {"error": error_message, "metadata": {...}}
ReturnSafetyError ==
  /\ step = "return"
  /\ reasons # {}
  /\ expanded' = <<SafetyError(error_message, reasons, model)>>
  /\ step' = "returned"
  /\ UNCHANGED <<conform, callers, error_message, model, match, codes, code_i, reasons, expand_raised>>

\* return {"error": error_message}
ReturnPlainError ==
  /\ step = "return"
  /\ reasons = {}
  /\ expanded' = <<PlainError(error_message)>>
  /\ step' = "returned"
  /\ UNCHANGED <<conform, callers, error_message, model, match, codes, code_i, reasons, expand_raised>>

NextExpand ==
  \/ Search
  \/ ParseCodes
  \/ ParseCodesRaises
  \/ AddReason
  \/ EndCodes
  \/ ReturnSafetyError
  \/ ReturnPlainError

\* Calls of expand_veo_error
SpecExpand == InitExpand /\ [][NextExpand]_vars

(***************************************************************************)
(* The handlers of the generation functions: generate_text and             *)
(* generate_and_execute_code (functions/generate.py), generate_images      *)
(* (functions/image.py), generate_video (functions/video.py),              *)
(* generate_speech_from_text and generate_music_from_text                  *)
(* (functions/audio.py). What from_pidgin_string, the agent file system,   *)
(* stream_generate_content and execute_step answer is theirs to decide:    *)
(* the calls below cover their answers.                                    *)
(***************************************************************************)
GENERATE_TEXT_FUNCTION == "generate_text"
GENERATE_AND_EXECUTE_CODE_FUNCTION == "generate_and_execute_code"
GENERATE_IMAGES_FUNCTION == "generate_images"
GENERATE_VIDEO_FUNCTION == "generate_video"
GENERATE_SPEECH_FUNCTION == "generate_speech_from_text"
GENERATE_MUSIC_FUNCTION == "generate_music_from_text"

FLASH_MODEL_NAME == "gemini-3-flash-preview"
PRO_MODEL_NAME == "gemini-3-pro-preview"
LITE_MODEL_NAME == "gemini-2.5-flash-lite"

StreamFunctions == {GENERATE_TEXT_FUNCTION, GENERATE_AND_EXECUTE_CODE_FUNCTION}
ReferenceFunctions == {GENERATE_IMAGES_FUNCTION, GENERATE_VIDEO_FUNCTION}
StepFunctions ==
  {GENERATE_IMAGES_FUNCTION, GENERATE_VIDEO_FUNCTION, GENERATE_SPEECH_FUNCTION,
   GENERATE_MUSIC_FUNCTION}

\* None, and a value that is not None, as status_cb and the code's variables
\* of type str | None hold them
None == <<>>
Some(s) == <<s>>

_resolve_text_model(model_) ==
  IF model_ = "pro" THEN PRO_MODEL_NAME
  ELSE IF model_ = "lite" THEN LITE_MODEL_NAME
  ELSE FLASH_MODEL_NAME

\* The status text a handler gives when args has no status_update
DefaultStatus(function_, args_) ==
  CASE function_ = GENERATE_TEXT_FUNCTION ->
         (IF Get(args_, "search_grounding", FALSE) \/ Get(args_, "maps_grounding", FALSE)
          THEN "Researching" ELSE "Generating Text")
    [] function_ = GENERATE_AND_EXECUTE_CODE_FUNCTION ->
         (IF Get(args_, "search_grounding", FALSE) THEN "Researching" ELSE "Generating Code")
    [] function_ = GENERATE_IMAGES_FUNCTION -> "Generating Image(s)"
    [] function_ = GENERATE_VIDEO_FUNCTION -> "Generating Video"
    [] function_ = GENERATE_SPEECH_FUNCTION -> "Generating Speech"
    [] function_ = GENERATE_MUSIC_FUNCTION -> "Generating Music"

\* A variant that gives the default text whatever args has
FirstStatusDefaultAlways(function_, args_) == DefaultStatus(function_, args_)

\* status_cb(status_update or default): the value of the handler's first call
FirstStatus(function_, args_) ==
  IF Truthy(Get(args_, "status_update", None))
  THEN args_.status_update
  ELSE DefaultStatus(function_, args_)

\* tools
Tools(function_, args_) ==
  (IF Get(args_, "search_grounding", FALSE) THEN <<[googleSearch |-> <<>>]>> ELSE <<>>)
    \o (IF function_ = GENERATE_TEXT_FUNCTION /\ Get(args_, "maps_grounding", FALSE)
        THEN <<[googleMaps |-> <<>>]>> ELSE <<>>)
    \o (IF function_ = GENERATE_TEXT_FUNCTION /\ Get(args_, "url_context", FALSE)
        THEN <<[urlContext |-> <<>>]>> ELSE <<>>)
    \o (IF function_ = GENERATE_AND_EXECUTE_CODE_FUNCTION
        THEN <<[codeExecution |-> <<>>]>> ELSE <<>>)

\* body = {"systemInstruction": ..., "contents": [translated], ...}, with tools
\* when there are any
BuiltBody(function_, args_, translated_) ==
  LET base == IF function_ = GENERATE_TEXT_FUNCTION
              THEN [systemInstruction |-> "DEFAULT_SYSTEM_INSTRUCTION",
                    contents |-> <<translated_>>,
                    generationConfig |->
                      IF Get(args_, "model", "flash") = "pro"
                      THEN [thinkingConfig |-> [includeThoughts |-> TRUE,
                                                thinkingLevel |-> "high"]]
                      ELSE <<>>]
              ELSE [systemInstruction |-> "_CODE_SYSTEM_INSTRUCTION",
                    contents |-> <<translated_>>]
  IN  IF Truthy(Tools(function_, args_)) THEN With(base, "tools", Tools(function_, args_))
      ELSE base

\* The model the handler streams from
StreamModel(function_, args_) ==
  IF function_ = GENERATE_TEXT_FUNCTION THEN _resolve_text_model(Get(args_, "model", "flash"))
  ELSE FLASH_MODEL_NAME

\* A variant that has conform_body called whatever upstream_base is
ConformWantedAlways(config_) == TRUE

\* if upstream_base: body = await conform_body(...)
ConformWanted(config_) == Truthy(config_.upstream_base)

\* A variant that returns the exception's message alone
ConformFailureBare(e) == [error |-> e.message]

\* {"error": f"Failed to resolve data parts: {e}"}
ConformFailure(e) == [error |-> "Failed to resolve data parts: " \o e.message]

\* file_system.add_part(part, name): the path of the file added, or an error
\* when the file system refuses the part
add_part(file_system_, part_, name) ==
  IF file_system_.accepts
  THEN [path |-> IF Truthy(name) THEN "/mnt/" \o name
                 ELSE "/mnt/file" \o NatToStr(Len(file_system_.added) + 1)]
  ELSE ("$error" :> "Unable to save the part")

\* file_system after add_part(part, name)
Added(file_system_, part_, name) ==
  IF "$error" \in DOMAIN add_part(file_system_, part_, name) THEN file_system_
  ELSE [file_system_ EXCEPT !.added = Append(@, [path |-> add_part(file_system_, part_, name).path,
                                                  part |-> part_])]

\* What the loop over a chunk's parts carries from one part to the next
Carried ==
  [result_texts |-> result_texts,
   statuses |-> statuses,
   last_code_execution_error |-> last_code_execution_error,
   file_system |-> file_system,
   returned |-> <<>>]

\* A variant that takes the thought parts for result text too
TextPartThoughtsKept(part_, c) ==
  IF DOMAIN part_ = {} THEN c
  ELSE IF "text" \in DOMAIN part_
    THEN [c EXCEPT !.result_texts = Append(@, part_.text)]
  ELSE c

\* The body of generate_text's loop over parts
TextPart(part_, c) ==
  IF DOMAIN part_ = {} THEN c
  ELSE IF "text" \in DOMAIN part_
    THEN IF Get(part_, "thought", FALSE) = TRUE
         THEN [c EXCEPT !.statuses = Append(@, Some(part_.text))]
         ELSE [c EXCEPT !.result_texts = Append(@, part_.text)]
  ELSE c

\* A variant that keeps the first failed outcome once there is one
CodeExecutionErrorKept(last, result_) ==
  IF Truthy(last) THEN last
  ELSE IF Get(result_, "outcome", "") # "OUTCOME_OK" THEN Some(Get(result_, "output", ""))
  ELSE None

\* last_code_execution_error after a codeExecutionResult part
CodeExecutionError(last, result_) ==
  IF Get(result_, "outcome", "") # "OUTCOME_OK" THEN Some(Get(result_, "output", ""))
  ELSE None

\* The body of generate_and_execute_code's loop over parts
CodePart(part_, c) ==
  IF c.returned # <<>> \/ DOMAIN part_ = {} THEN c
  ELSE IF "text" \in DOMAIN part_
    THEN IF Get(part_, "thought", FALSE) = TRUE
         THEN [c EXCEPT !.statuses = Append(@, Some(part_.text))]
         ELSE [c EXCEPT !.result_texts = Append(@, part_.text)]
  ELSE IF "inlineData" \in DOMAIN part_
    THEN LET file_path == add_part(c.file_system, part_, None)
         IN  IF "$error" \in DOMAIN file_path
             THEN [c EXCEPT !.returned =
                     <<[error |-> "Code generation failed due to invalid file output."]>>]
             ELSE [c EXCEPT !.file_system = Added(c.file_system, part_, None),
                            !.result_texts =
                               Append(@, "<file src=\"" \o file_path.path \o "\" />")]
  ELSE IF "codeExecutionResult" \in DOMAIN part_
    THEN [c EXCEPT !.last_code_execution_error =
                      CodeExecutionError(@, part_.codeExecutionResult)]
  ELSE c

\* for part in parts: ..., from the values c
RECURSIVE ForParts(_, _, _)
ForParts(function_, parts_, c) ==
  IF Len(parts_) = 0 THEN c
  ELSE ForParts(function_, Tail(parts_),
                IF function_ = GENERATE_TEXT_FUNCTION THEN TextPart(Head(parts_), c)
                ELSE CodePart(Head(parts_), c))

\* The parts of the first candidate of a chunk
ChunkParts(chunk) ==
  LET candidates == Get(chunk, "candidates", <<>>)
  IN  IF ~Truthy(candidates) THEN <<>>
      ELSE Get(Get(candidates[1], "content", <<>>), "parts", <<>>)

\* "".join(strs)
RECURSIVE Concat(_)
Concat(strs) == IF Len(strs) = 0 THEN "" ELSE Head(strs) \o Concat(Tail(strs))

\* A variant that tells a failed outcome from None, not from an empty output
CodeExecutionFailedNotNone(last) == last # None

\* if last_code_execution_error:
CodeExecutionFailed(last) == last # None /\ Truthy(last[1])

\* A variant that gives the status its first value over again
StatusRepeated(statuses_) == Append(statuses_, Head(statuses_))

\* status_cb(None)
StatusCleared(statuses_) == Append(statuses_, None)

\* What the handler of a streaming function does when the stream is exhausted:
\* the statuses given and the dict returned
AfterStream(function_, texts, last, statuses_) ==
  IF function_ = GENERATE_AND_EXECUTE_CODE_FUNCTION /\ CodeExecutionFailed(last)
  THEN [statuses |-> statuses_,
        returned |-> [error |-> "The code generator tried and failed with the "
                                  \o "following error:\n\n" \o last[1]]]
  ELSE [statuses |-> StatusCleared(statuses_),
        returned |->
          IF ~Truthy(texts) THEN [error |-> "No text was generated. Please try again"]
          ELSE IF function_ = GENERATE_TEXT_FUNCTION THEN [text |-> Concat(texts)]
          ELSE [result |-> Concat(texts)]]

\* The files of the agent file system before the call: file_system.get(path)
\* gives an error, or the parts of the file
file_system_get(path) ==
  CASE path = "/mnt/ref.png" ->
         [parts |-> <<[inlineData |-> [data |-> "iVBOR", mimeType |-> "image/png"]]>>]
    [] path = "/mnt/notes.md" -> [parts |-> <<[text |-> "notes"]>>]
    [] path = "/mnt/empty.png" -> [parts |-> <<>>]
    [] OTHER -> ("$error" :> ("File not found: " \o path))

\* resolve_part_to_chunk(data_part, ...): the ValueError it raises for a part
\* that is no media part, or None
resolve_part_to_chunk_error(data_part) ==
  IF "text" \in DOMAIN data_part THEN Some("Unsupported part for executeStep") ELSE None

\* The error the loop over the input image paths returns with, or None
RECURSIVE ReferenceError(_)
ReferenceError(image_paths) ==
  IF Len(image_paths) = 0 THEN None
  ELSE LET image_path == Head(image_paths)
           result_ == file_system_get(image_path)
       IN  IF "$error" \in DOMAIN result_ THEN Some(result_["$error"])
           ELSE IF ~Truthy(result_.parts) THEN Some("Empty file: \"" \o image_path \o "\"")
           ELSE IF resolve_part_to_chunk_error(result_.parts[1]) # None
             THEN resolve_part_to_chunk_error(result_.parts[1])
           ELSE ReferenceError(Tail(image_paths))

\* The error a handler returns when the step gave nothing
NoneGenerated(function_) ==
  CASE function_ = GENERATE_IMAGES_FUNCTION -> "No images were generated. Please try again"
    [] function_ = GENERATE_VIDEO_FUNCTION -> "No video was generated. Please try again"
    [] function_ = GENERATE_SPEECH_FUNCTION -> "No speech was generated"
    [] function_ = GENERATE_MUSIC_FUNCTION -> "No music was generated"

\* The key of a handler's result
ResultKey(function_) ==
  CASE function_ = GENERATE_VIDEO_FUNCTION -> "video"
    [] function_ = GENERATE_SPEECH_FUNCTION -> "speech"
    [] function_ = GENERATE_MUSIC_FUNCTION -> "music"

\* generate_video, generate_speech_from_text and generate_music_from_text
\* after execute_step has returned: the first part of the first chunk is saved
SaveFirst(function_, result_, file_name, file_system_) ==
  LET output_chunks == Get(result_, "chunks", <<>>)
      parts_ == Get(output_chunks[1], "parts", <<>>)
      result_path == add_part(file_system_, parts_[1], file_name)
  IN  IF ~Truthy(output_chunks) \/ ~Truthy(parts_)
      THEN [returned |-> [error |-> NoneGenerated(function_)], file_system |-> file_system_]
      ELSE IF "$error" \in DOMAIN result_path
        THEN [returned |-> [error |-> result_path["$error"]], file_system |-> file_system_]
      ELSE [returned |-> (ResultKey(function_) :> result_path.path),
            file_system |-> Added(file_system_, parts_[1], file_name)]

\* generate_images' loops over the output chunks and their parts, from chunk i
\* and part j on
RECURSIVE SaveImages(_, _, _, _, _)
SaveImages(output_chunks, file_name, i, j, c) ==
  IF i > Len(output_chunks) THEN c
  ELSE IF j > Len(Get(output_chunks[i], "parts", <<>>))
    THEN SaveImages(output_chunks, file_name, i + 1, 1, c)
  ELSE LET part_ == output_chunks[i].parts[j]
           name == IF Truthy(file_name) /\ Len(output_chunks) > 1
                   THEN file_name \o "_" \o NatToStr(i)
                   ELSE file_name
           result_path == add_part(c.file_system, part_, name)
       IN  SaveImages(output_chunks, file_name, i, j + 1,
                      IF "$error" \in DOMAIN result_path
                      THEN [c EXCEPT !.errors = Append(@, result_path["$error"])]
                      ELSE [c EXCEPT !.image_paths = Append(@, result_path.path),
                                     !.file_system = Added(@, part_, name)])

\* generate_images after execute_step has returned
SaveAll(result_, file_name, file_system_) ==
  LET output_chunks == Get(result_, "chunks", <<>>)
      c == SaveImages(output_chunks, file_name, 1, 1,
                      [errors |-> <<>>, image_paths |-> <<>>, file_system |-> file_system_])
  IN  IF ~Truthy(output_chunks)
      THEN [returned |-> [error |-> NoneGenerated(GENERATE_IMAGES_FUNCTION)],
            file_system |-> file_system_]
      ELSE IF Truthy(c.errors)
        THEN [returned |-> [error |-> Join(c.errors, ", ")], file_system |-> c.file_system]
      ELSE [returned |-> [images |-> c.image_paths], file_system |-> c.file_system]

(***************************************************************************)
(* The calls of the handlers.                                              *)
(***************************************************************************)
MaxChunks == 2

PlainTranslation == [role |-> "user", parts |-> <<[text |-> "Say hello"]>>]

\* What from_pidgin_string returns: a content whose parts are those of the
\* prompt and of the files its <file> tags name, or an error
Translations ==
  { PlainTranslation,
    [role |-> "user",
     parts |-> <<[text |-> "Describe"], StoredData("drive:/d1", "image/jpeg")>>],
    [role |-> "user", parts |-> <<[json |-> JObj(<<JMember("a", JInt(1))>>)]>>],
    [role |-> "user", parts |-> <<StoredData("ftp://weird", "image/png")>>],
    [role |-> "user", parts |-> <<FileData("drive:/x", "image/png")>>],
    ("$error" :> "File not found: /mnt/missing.md") }

StreamArgs(function_) ==
  { [prompt |-> "Say hello", model |-> "flash"],
    [prompt |-> "Say hello", model |-> "pro", status_update |-> "Working on it"],
    [prompt |-> "Say hello", model |-> "lite", status_update |-> "",
     search_grounding |-> TRUE, url_context |-> TRUE] }
    \cup (IF function_ = GENERATE_TEXT_FUNCTION
          THEN {[prompt |-> "Where is it", model |-> "flash", maps_grounding |-> TRUE]}
          ELSE {})

StepArgs(function_) ==
  { [prompt |-> "A cat"],
    [prompt |-> "A cat", status_update |-> "Working on it", file_name |-> "out"],
    [prompt |-> "A cat", status_update |-> ""] }
    \cup (IF function_ \in ReferenceFunctions
          THEN {[prompt |-> "A cat", images |-> paths] :
                  paths \in { <<"/mnt/ref.png">>,
                              <<"/mnt/ref.png", "/mnt/missing.png">>,
                              <<"/mnt/empty.png">>,
                              <<"/mnt/notes.md">> }}
          ELSE {})

\* access_token, upstream_base and origin as get_*_function_group is given them
Configs ==
  { [access_token |-> "", upstream_base |-> "", origin |-> ""],
    [access_token |-> "test-token", upstream_base |-> "https://test.example.com",
     origin |-> ""] }

NoUpstream == CHOOSE c \in Configs : ~Truthy(c.upstream_base)
WithUpstream == CHOOSE c \in Configs : Truthy(c.upstream_base)

Call(function_, args_, config_, translated_, accepts) ==
  [function |-> function_, args |-> args_, config |-> config_,
   translated |-> translated_, accepts |-> accepts]

\* The calls: each args with one configuration, each translation with each
\* configuration, and a file system that refuses parts
Calls ==
  UNION { {Call(f, a, NoUpstream, PlainTranslation, TRUE) : a \in StreamArgs(f)}
          : f \in StreamFunctions }
    \cup {Call(f, [prompt |-> "Say hello", model |-> "flash"], c, t, TRUE) :
            f \in StreamFunctions, c \in Configs, t \in Translations}
    \cup {Call(GENERATE_AND_EXECUTE_CODE_FUNCTION, [prompt |-> "Plot it"], NoUpstream,
               PlainTranslation, FALSE)}
    \cup UNION { {Call(f, a, WithUpstream, None, TRUE) : a \in StepArgs(f)}
                 : f \in StepFunctions }
    \cup {Call(f, [prompt |-> "A cat"], WithUpstream, None, FALSE) : f \in StepFunctions}

\* A chunk of one candidate with the parts given
Chunk(parts_) == [candidates |-> <<[content |-> [parts |-> parts_]]>>]

\* The chunks stream_generate_content yields to the handler of a function
StreamChunks(function_) ==
  IF function_ = GENERATE_TEXT_FUNCTION
  THEN { Chunk(<<[text |-> "Hello"]>>),
         Chunk(<<[text |-> " world"], <<>>, [text |-> "!", thought |-> FALSE]>>),
         Chunk(<<[text |-> "Hmm let me think...", thought |-> TRUE]>>),
         Chunk(<<[text |-> ""]>>),
         [candidates |-> <<>>],
         [candidates |-> <<[content |-> [parts |-> <<[functionCall |-> "f"]>>]],
                           [content |-> [parts |-> <<[text |-> "second"]>>]]>>] }
  ELSE { Chunk(<<[text |-> "done"]>>),
         Chunk(<<[text |-> "Running the code", thought |-> TRUE]>>),
         Chunk(<<[inlineData |-> [data |-> "iVBOR", mimeType |-> "image/png"]]>>),
         Chunk(<<[codeExecutionResult |-> [outcome |-> "OUTCOME_OK", output |-> "42"]]>>),
         Chunk(<<[codeExecutionResult |->
                    [outcome |-> "OUTCOME_FAILED", output |-> "Traceback"]]>>),
         Chunk(<<[codeExecutionResult |-> [outcome |-> "OUTCOME_FAILED", output |-> ""]]>>) }

\* The streams: at most MaxChunks chunks and then the end, or an exception
\* after at most one chunk; yielded holds the chunks the handler was given
Streams(function_) ==
  {[chunks |-> cs, error |-> None, yielded |-> <<>>] :
     cs \in PartSeqs(StreamChunks(function_), MaxChunks)}
    \cup {[chunks |-> cs, error |-> Some("Network failure"), yielded |-> <<>>] :
            cs \in PartSeqs(StreamChunks(function_), 1)}

\* The messages of the ValueError execute_step raises
StepErrors ==
  { "Model quota exceeded",
    "Video blocked. Support codes: 58061214, 90789179",
    "Video blocked. Support codes: 58061214, " }

GeneratedPart == StoredData("gcs://bucket/output", "video/mp4")

\* What execute_step returns
StepResults ==
  { [chunks |-> <<[parts |-> <<GeneratedPart>>, role |-> "user"]>>],
    [chunks |-> <<[parts |-> <<GeneratedPart>>, role |-> "user"],
                  [parts |-> <<GeneratedPart, GeneratedPart>>, role |-> "user"]>>],
    [chunks |-> <<[parts |-> <<>>, role |-> "user"]>>],
    [chunks |-> <<>>] }

InitFunctions ==
  /\ \E call \in Calls :
       /\ function = call.function
       /\ args = call.args
       /\ config = call.config
       /\ translated = call.translated
       /\ file_system = [accepts |-> call.accepts, added |-> <<>>]
  /\ hpc = "start"
  /\ statuses = <<>>
  /\ gemini_body = <<>>
  /\ provider_calls = <<>>
  /\ stream = <<>>
  /\ result_texts = <<>>
  /\ last_code_execution_error = None
  /\ step_calls = <<>>
  /\ returned = <<>>
  /\ handler_raised = <<>>
  /\ earlier = <<>>
  /\ NoConformCall
  /\ NoExpansion

call_arguments == <<function, args, config, translated>>

\* step_calls with the outcome of the call of execute_step written in
StepAnswered(outcome) == [step_calls EXCEPT ![Len(step_calls)].outcome = outcome]

\* status_cb(status_update or default), after the arguments are read
StatusFirst ==
  /\ hpc = "start"
  /\ statuses' = Append(statuses, Some(FirstStatus(function, args)))
  /\ hpc' = "inputs"
  /\ UNCHANGED <<conform, expansion, earlier, call_arguments, file_system, gemini_body,
                 provider_calls, stream, result_texts, last_code_execution_error,
                 step_calls, returned, handler_raised>>

\* if isinstance(translated, dict) and "$error" in translated: return {"error": ...}
PidginFails ==
  /\ hpc = "inputs"
  /\ function \in StreamFunctions
  /\ "$error" \in DOMAIN translated
  /\ returned' = <<[error |-> translated["$error"]]>>
  /\ hpc' = "returned"
  /\ UNCHANGED <<conform, expansion, earlier, call_arguments, file_system, statuses,
                 gemini_body, provider_calls, stream, result_texts,
                 last_code_execution_error, step_calls, handler_raised>>

\* The body is built and upstream_base is empty: conform_body is not called
ConformSkipped ==
  /\ hpc = "inputs"
  /\ function \in StreamFunctions
  /\ "$error" \notin DOMAIN translated
  /\ ~ConformWanted(config)
  /\ gemini_body' = BuiltBody(function, args, translated)
  /\ hpc' = "call"
  /\ UNCHANGED <<conform, expansion, earlier, call_arguments, file_system, statuses,
                 provider_calls, stream, result_texts, last_code_execution_error,
                 step_calls, returned, handler_raised>>

\* The body is built and conform_body(body, access_token=..., upstream_base=...,
\* origin=...) is called
ConformCalled ==
  /\ hpc = "inputs"
  /\ function \in StreamFunctions
  /\ "$error" \notin DOMAIN translated
  /\ ConformWanted(config)
  /\ gemini_body' = BuiltBody(function, args, translated)
  /\ body' = BuiltBody(function, args, translated)
  /\ access_token' = config.access_token
  /\ upstream_base' = config.upstream_base
  /\ client' = "None"
  /\ origin' = config.origin
  /\ pc' = "start"
  /\ hpc' = "conform"
  /\ UNCHANGED <<locals, network, result, raised, expansion, earlier, call_arguments,
                 file_system, statuses, provider_calls, stream, result_texts,
                 last_code_execution_error, step_calls, returned, handler_raised>>

\* body = await conform_body(...)
ConformReturns ==
  /\ hpc = "conform"
  /\ pc = "done"
  /\ gemini_body' = result[1]
  /\ hpc' = "call"
  /\ UNCHANGED <<conform, expansion, earlier, call_arguments, file_system, statuses,
                 provider_calls, stream, result_texts, last_code_execution_error,
                 step_calls, returned, handler_raised>>

\* except Exception as e: return {"error": f"Failed to resolve data parts: {e}"}
ConformRaises ==
  /\ hpc = "conform"
  /\ pc = "raised"
  /\ raised[1].type # "CancelledError"
  /\ returned' = <<ConformFailure(raised[1])>>
  /\ hpc' = "returned"
  /\ UNCHANGED <<conform, expansion, earlier, call_arguments, file_system, statuses,
                 gemini_body, provider_calls, stream, result_texts,
                 last_code_execution_error, step_calls, handler_raised>>

\* asyncio.CancelledError is no Exception: it leaves the handler
ConformCancelled ==
  /\ hpc = "conform"
  /\ pc = "raised"
  /\ raised[1].type = "CancelledError"
  /\ handler_raised' = raised
  /\ hpc' = "raised"
  /\ UNCHANGED <<conform, expansion, earlier, call_arguments, file_system, statuses,
                 gemini_body, provider_calls, stream, result_texts,
                 last_code_execution_error, step_calls, returned>>

\* stream_generate_content(model, body, access_token=access_token)
StreamCalled ==
  /\ hpc = "call"
  /\ provider_calls' = Append(provider_calls,
                              [model |-> StreamModel(function, args),
                               body |-> gemini_body,
                               access_token |-> config.access_token])
  /\ stream' \in Streams(function)
  /\ hpc' = "stream"
  /\ UNCHANGED <<conform, expansion, earlier, call_arguments, file_system, statuses,
                 gemini_body, result_texts, last_code_execution_error, step_calls,
                 returned, handler_raised>>

\* async for chunk in ...: one chunk, and the loop over the parts of its first
\* candidate
ChunkYielded ==
  /\ hpc = "stream"
  /\ Truthy(stream.chunks)
  /\ LET c == ForParts(function, ChunkParts(Head(stream.chunks)), Carried)
     IN  /\ result_texts' = c.result_texts
         /\ statuses' = c.statuses
         /\ last_code_execution_error' = c.last_code_execution_error
         /\ file_system' = c.file_system
         /\ returned' = c.returned
         /\ hpc' = IF c.returned # <<>> THEN "returned" ELSE "stream"
  /\ stream' = [stream EXCEPT !.chunks = Tail(@), !.yielded = Append(@, Head(stream.chunks))]
  /\ UNCHANGED <<conform, expansion, earlier, call_arguments, gemini_body, provider_calls,
                 step_calls, handler_raised>>

\* except Exception as e: return {"error": str(e)}
StreamRaises ==
  /\ hpc = "stream"
  /\ ~Truthy(stream.chunks)
  /\ stream.error # None
  /\ returned' = <<[error |-> stream.error[1]]>>
  /\ hpc' = "returned"
  /\ UNCHANGED <<conform, expansion, earlier, call_arguments, file_system, statuses,
                 gemini_body, provider_calls, stream, result_texts,
                 last_code_execution_error, step_calls, handler_raised>>

\* The stream is exhausted: the code execution error is looked at, the status
\* cleared and the texts merged
StreamEnds ==
  /\ hpc = "stream"
  /\ ~Truthy(stream.chunks)
  /\ stream.error = None
  /\ LET after == AfterStream(function, result_texts, last_code_execution_error, statuses)
     IN  /\ statuses' = after.statuses
         /\ returned' = <<after.returned>>
  /\ hpc' = "returned"
  /\ UNCHANGED <<conform, expansion, earlier, call_arguments, file_system, gemini_body,
                 provider_calls, stream, result_texts, last_code_execution_error,
                 step_calls, handler_raised>>

\* An input image is missing, empty or no media part: return {"error": ...}
ReferenceFails ==
  /\ hpc = "inputs"
  /\ function \in ReferenceFunctions
  /\ ReferenceError(Get(args, "images", <<>>)) # None
  /\ returned' = <<[error |-> ReferenceError(Get(args, "images", <<>>))[1]]>>
  /\ hpc' = "returned"
  /\ UNCHANGED <<conform, expansion, earlier, call_arguments, file_system, statuses,
                 gemini_body, provider_calls, stream, result_texts,
                 last_code_execution_error, step_calls, handler_raised>>

\* result = await execute_step(body, ...)
StepCalled ==
  /\ hpc = "inputs"
  /\ function \in StepFunctions
  /\ function \in ReferenceFunctions => ReferenceError(Get(args, "images", <<>>)) = None
  /\ step_calls' = Append(step_calls, [function |-> function,
                                       images |-> Get(args, "images", <<>>),
                                       outcome |-> "pending"])
  /\ hpc' = "step"
  /\ UNCHANGED <<conform, expansion, earlier, call_arguments, file_system, statuses,
                 gemini_body, provider_calls, stream, result_texts,
                 last_code_execution_error, returned, handler_raised>>

\* except ValueError as e: return {"error": str(e)}
StepRaises ==
  /\ hpc = "step"
  /\ function # GENERATE_VIDEO_FUNCTION
  /\ \E e \in StepErrors : returned' = <<[error |-> e]>>
  /\ step_calls' = StepAnswered("raised")
  /\ hpc' = "returned"
  /\ UNCHANGED <<conform, expansion, earlier, call_arguments, file_system, statuses,
                 gemini_body, provider_calls, stream, result_texts,
                 last_code_execution_error, handler_raised>>

\* except ValueError as e: expanded = expand_veo_error(str(e), VIDEO_MODEL_NAME)
StepRaisesVideo ==
  /\ hpc = "step"
  /\ function = GENERATE_VIDEO_FUNCTION
  /\ error_message' \in StepErrors
  /\ model' = VIDEO_MODEL_NAME
  /\ step' = "search"
  /\ step_calls' = StepAnswered("raised")
  /\ hpc' = "expand"
  /\ UNCHANGED <<conform, match, codes, code_i, reasons, expanded, expand_raised, earlier,
                 call_arguments, file_system, statuses, gemini_body, provider_calls,
                 stream, result_texts, last_code_execution_error, returned,
                 handler_raised>>

\* return expanded
ExpandReturns ==
  /\ hpc = "expand"
  /\ step = "returned"
  /\ returned' = expanded
  /\ hpc' = "returned"
  /\ UNCHANGED <<conform, expansion, earlier, call_arguments, file_system, statuses,
                 gemini_body, provider_calls, stream, result_texts,
                 last_code_execution_error, step_calls, handler_raised>>

\* expand_veo_error raises inside the except clause: nothing catches it
ExpandRaises ==
  /\ hpc = "expand"
  /\ step = "raised"
  /\ handler_raised' = expand_raised
  /\ hpc' = "raised"
  /\ UNCHANGED <<conform, expansion, earlier, call_arguments, file_system, statuses,
                 gemini_body, provider_calls, stream, result_texts,
                 last_code_execution_error, step_calls, returned>>

\* execute_step returns: status_cb(None), and the output is saved
StepReturns ==
  /\ hpc = "step"
  /\ \E result_ \in StepResults :
       LET saved == IF function = GENERATE_IMAGES_FUNCTION
                    THEN SaveAll(result_, Get(args, "file_name", None), file_system)
                    ELSE SaveFirst(function, result_, Get(args, "file_name", None),
                                   file_system)
       IN  /\ returned' = <<saved.returned>>
           /\ file_system' = saved.file_system
  /\ statuses' = StatusCleared(statuses)
  /\ step_calls' = StepAnswered("returned")
  /\ hpc' = "returned"
  /\ UNCHANGED <<conform, expansion, earlier, call_arguments, gemini_body, provider_calls,
                 stream, result_texts, last_code_execution_error, handler_raised>>

NextFunctions ==
  \/ StatusFirst
  \/ PidginFails
  \/ ConformSkipped
  \/ ConformCalled
  \/ BeginContents
  \/ BeginParts
  \/ TransformReturns
  \/ TransformRaises
  \/ UploadBegins
  \/ UploadReturns
  \/ UploadRaises
  \/ UploadTransportError
  \/ UploadCancelled
  \/ EndParts
  \/ ReturnBody
  \/ ConformReturns
  \/ ConformRaises
  \/ ConformCancelled
  \/ StreamCalled
  \/ ChunkYielded
  \/ StreamRaises
  \/ StreamEnds
  \/ ReferenceFails
  \/ StepCalled
  \/ StepRaises
  \/ StepRaisesVideo
  \/ Search
  \/ ParseCodes
  \/ ParseCodesRaises
  \/ AddReason
  \/ EndCodes
  \/ ReturnSafetyError
  \/ ReturnPlainError
  \/ ExpandReturns
  \/ ExpandRaises
  \/ StepReturns

\* Calls of the handlers of the generation functions
SpecFunctions == InitFunctions /\ [][NextFunctions]_vars

(***************************************************************************)
(* The vocabulary of the properties.                                       *)
(***************************************************************************)
\* The parts of the i-th content of the input
InputParts(i) == Get(contents[i], "parts", <<>>)

\* The places of the input's parts: <<content index, part index>>
Positions == UNION {{<<i, j>> : j \in 1..Len(InputParts(i))} : i \in 1..Len(contents)}

InputPart(pos) == InputParts(pos[1])[pos[2]]

\* Document order: content order, then part order
Before(a, b) == a[1] < b[1] \/ (a[1] = b[1] /\ a[2] < b[2])

\* The place of the part the loop is at (between two contents: before the first
\* part of the next), and the places it has finished with
Cursor == <<ci, IF pc \in {"part", "post", "raised"} THEN pi ELSE 0>>
Finished == IF pc = "done" THEN Positions ELSE {pos \in Positions : Before(pos, Cursor)}

Returned == result # <<>>
Failed == raised # <<>>

\* The returned body's contents and parts
OutputContents == result[1].contents
OutputPart(pos) == OutputContents[pos[1]].parts[pos[2]]

\* The POSTs sent for the part at pos, as indices of posts
PostsAt(pos) == {k \in 1..Len(posts) : posts[k].at = pos}

\* The POST was answered with a status below 400
AnsweredOk(post) == post.outcome = "response" /\ post.response[1].status_code < 400

\* The upload did not succeed: an error status, no response, or a cancellation
UploadFailed(post) == post.outcome # "pending" /\ ~AnsweredOk(post)

\* sub occurs in s
Contains(s, sub) ==
  \E i \in 1..(Len(s) - Len(sub) + 1) : SubSeq(s, i, i + Len(sub) - 1) = sub

(***************************************************************************)
(* C1. When conform_body succeeds on a body with contents, the output has  *)
(* as many contents as the input, in the same order, and each content that *)
(* has parts has as many parts as its input, output part j being the       *)
(* transform of input part j: the part _transform_part returns for it, or  *)
(* the fileData part made of the response to the one POST sent for it.     *)
(***************************************************************************)
\* The transform of the input part at pos in this call, if it has one
TransformOf(pos) ==
  LET outcome == _transform_part(InputPart(pos))
      sent    == PostsAt(pos)
  IN  IF outcome.do = "return" THEN <<outcome.part>>
      ELSE IF outcome.do = "upload" /\ Cardinality(sent) = 1
        THEN LET post == posts[CHOOSE k \in sent : TRUE]
             IN  IF AnsweredOk(post) /\ post.response[1].json # <<>>
                 THEN <<UploadedPart(post.response[1].json[1])>>
                 ELSE <<>>
      ELSE <<>>

C1_OrderPreserved ==
  (pc = "done" /\ Truthy(contents)) =>
    /\ Returned
    /\ Len(OutputContents) = Len(contents)
    /\ \A i \in 1..Len(contents) :
         Truthy(InputParts(i)) =>
           /\ "parts" \in DOMAIN OutputContents[i]
           /\ Len(OutputContents[i].parts) = Len(InputParts(i))
    /\ \A pos \in Positions : <<OutputPart(pos)>> = TransformOf(pos)

\* A call has returned a content of two parts, one rewritten from json and one
\* uploaded, that differ from each other
C1_Witness ==
  /\ pc = "done"
  /\ Returned
  /\ \E i \in 1..Len(contents) :
       /\ Len(InputParts(i)) = 2
       /\ \E j \in 1..2 : "json" \in DOMAIN InputPart(<<i, j>>)
       /\ \E j \in 1..2 : PostsAt(<<i, j>>) # {}
       /\ OutputPart(<<i, 1>>) # OutputPart(<<i, 2>>)

(***************************************************************************)
(* C2. conform_body is fail-fast. When the transform of a part fails (its  *)
(* handle is unknown, or its upload fails), conform_body raises that error *)
(* and returns no body, and no POST is sent for a later part: the loop     *)
(* never goes past a part whose transform failed, a failed upload is the   *)
(* last POST of the call, and every POST is for a part up to the failing   *)
(* one.                                                                    *)
(***************************************************************************)
C2_FailFast ==
  /\ Failed => (pc = "raised" /\ ~Returned)
  /\ Returned => ~Failed
  \* an unknown handle: raised there and then, with that error
  /\ \A pos \in Finished : _transform_part(InputPart(pos)).do # "raise"
  /\ (pc = "part" /\ pi <= Len(parts)) \/ pc = "post" \/ pc = "raised" => Cursor \in Positions
  /\ (pc = "raised" /\ _transform_part(part).do = "raise") =>
       raised = <<_transform_part(part).error>>
  \* a failed upload: raised there and then, and the last POST
  /\ \A k \in 1..Len(posts) :
       UploadFailed(posts[k]) =>
         /\ Failed
         /\ k = Len(posts)
         /\ posts[k].at = Cursor
         /\ posts[k].outcome = "response" => raised = <<UploadOutcome(posts[k].response[1]).error>>
  \* no POST for a part after the one the loop is at
  /\ \A k \in 1..Len(posts) : ~Before(Cursor, posts[k].at)
  /\ Failed => in_flight = {}

\* A call has raised for an upload that was answered with an error status, at a
\* part that has a part or a content with parts after it
C2_Witness ==
  /\ pc = "raised"
  /\ posts # <<>>
  /\ posts[Len(posts)].outcome = "response"
  /\ posts[Len(posts)].response[1].status_code >= 400
  /\ \E pos \in Positions :
       /\ Before(Cursor, pos)
       /\ _transform_part(InputPart(pos)).do = "upload"

(***************************************************************************)
(* The kinds of reference, as the specification names them (sections 3     *)
(* and 4.1), written without the code's operators.                         *)
(***************************************************************************)
\* The discriminant of a part that has one of the three the rules look at and
\* no other of them; "other" for a part with none of them; "mixed" otherwise
Discriminants == {"json", "storedData", "fileData"}
Discriminant(p) ==
  LET have == DOMAIN p \cap Discriminants
  IN  IF have = {} THEN "other"
      ELSE IF Cardinality(have) = 1 THEN CHOOSE d \in have : TRUE
      ELSE "mixed"

\* The handle of a storedData part, the fileUri and mimeType of a fileData part
\* (the empty string when the field is missing)
HandleOf(p) == IF "handle" \in DOMAIN p.storedData THEN p.storedData.handle ELSE ""
FileUriOf(p) == IF "fileUri" \in DOMAIN p.fileData THEN p.fileData.fileUri ELSE ""
MimeTypeOf(p) == IF "mimeType" \in DOMAIN p.fileData THEN p.fileData.mimeType ELSE ""

HasPrefix(s, prefix) == \E n \in 0..Len(s) : SubSeq(s, 1, n) = prefix

IsNotebookLMReference(h) == HasPrefix(h, "https://notebooklm.google.com/notebook/")

\* drive: followed by zero or more slashes
IsDriveReference(h) == HasPrefix(h, "drive:")

\* What follows drive: and every slash after it
RECURSIVE WithoutLeadingSlashes(_)
WithoutLeadingSlashes(s) ==
  IF Len(s) > 0 /\ Head(s) = "/" THEN WithoutLeadingSlashes(Tail(s)) ELSE s

DriveIdOf(h) == WithoutLeadingSlashes(SubSeq(h, 7, Len(h)))

HexDigit ==
  {"0", "1", "2", "3", "4", "5", "6", "7", "8", "9",
   "a", "b", "c", "d", "e", "f", "A", "B", "C", "D", "E", "F"}

\* The 36-character hyphenated hex form, in either case
IsUuid(u) ==
  /\ Len(u) = 36
  /\ \A i \in {9, 14, 19, 24} : SubSeq(u, i, i) = "-"
  /\ \A i \in (1..36) \ {9, 14, 19, 24} : SubSeq(u, i, i) \in HexDigit

\* http(s)://<one or more characters>/board/blobs/<uuid>
HasBlobShape(h) ==
  \E scheme \in {"http://", "https://"} :
    \E n \in 1..Len(h) :
      /\ Len(h) = Len(scheme) + n + 13 + 36
      /\ SubSeq(h, 1, Len(scheme)) = scheme
      /\ \A i \in (Len(scheme) + 1)..(Len(scheme) + n) : SubSeq(h, i, i) # "\n"
      /\ SubSeq(h, Len(scheme) + n + 1, Len(scheme) + n + 13) = "/board/blobs/"
      /\ IsUuid(SubSeq(h, Len(h) - 35, Len(h)))

\* The pattern ^https?://.+/board/blobs/<uuid>$ of section 4.1, with the hex
\* digits of either case, as a regular expression matches it: the $ also
\* matches before a line feed that ends the string
IsBlobReference(h) ==
  \/ HasBlobShape(h)
  \/ /\ Len(h) > 0
     /\ SubSeq(h, Len(h), Len(h)) = "\n"
     /\ HasBlobShape(SubSeq(h, 1, Len(h) - 1))

\* The final path segment
RECURSIVE FinalSegment(_)
FinalSegment(h) ==
  IF \E i \in 1..Len(h) : SubSeq(h, i, i) = "/" THEN FinalSegment(Tail(h)) ELSE h

\* The provider's File API base followed by /files/
FilesPrefix == "https://generativelanguage.googleapis.com/v1beta/" \o "/files/"

IsCanonicalReference(uri) == HasPrefix(uri, FilesPrefix)

\* A storedData or fileData part whose reference is of no kind
Unrecognized(p) ==
  \/ /\ Discriminant(p) = "storedData"
     /\ ~IsNotebookLMReference(HandleOf(p))
     /\ ~IsDriveReference(HandleOf(p))
     /\ ~IsBlobReference(HandleOf(p))
  \/ /\ Discriminant(p) = "fileData"
     /\ ~IsCanonicalReference(FileUriOf(p))
     /\ MimeTypeOf(p) # "video/mp4"
     /\ ~IsDriveReference(FileUriOf(p))

\* The parts of the pools that are such parts, computed once
UnrecognizedOfPools == {p \in HandleParts \cup CoreParts : Unrecognized(p)}

\* Unrecognized(p), looked up for a part of the pools
IsUnrecognized(p) ==
  IF p \in HandleParts \cup CoreParts THEN p \in UnrecognizedOfPools ELSE Unrecognized(p)

\* The handle or URI of such a part
ReferenceOf(p) == IF Discriminant(p) = "storedData" THEN HandleOf(p) ELSE FileUriOf(p)

(***************************************************************************)
(* C3. An unrecognized reference always fails and never passes through.    *)
(* The loop never goes past a storedData part whose handle is no           *)
(* NotebookLM, Drive or Blob reference, nor past a fileData part whose     *)
(* fileUri is not canonical, whose mimeType is not video/mp4 and whose     *)
(* fileUri is no Drive reference: no body is returned for an input that    *)
(* has one, no POST is sent for one, and when the loop reaches one the     *)
(* call raises an error whose message holds the handle or URI.             *)
(***************************************************************************)
C3_UnrecognizedFails ==
  /\ \A pos \in Finished : ~IsUnrecognized(InputPart(pos))
  /\ Returned => \A pos \in Positions : ~IsUnrecognized(InputPart(pos))
  /\ \A k \in 1..Len(posts) : ~IsUnrecognized(InputPart(posts[k].at))
  /\ (pc = "raised" /\ IsUnrecognized(part)) =>
       /\ raised[1].type = "ValueError"
       /\ Contains(raised[1].message, ReferenceOf(part))
       /\ Contains(raised[1].message, "Unknown " \o Discriminant(part))
  /\ (pc = "part" /\ pi <= Len(parts) /\ IsUnrecognized(part)) => ENABLED TransformRaises

\* A call has raised at a storedData part whose handle is of no kind
C3_Witness ==
  /\ pc = "raised"
  /\ Discriminant(part) = "storedData"
  /\ HandleOf(part) = "ftp://weird"
  /\ Unrecognized(part)
  /\ ~Returned

(***************************************************************************)
(* C4. Passthrough invariance. A part with none of the json, storedData    *)
(* and fileData keys (text, inlineData, any other kind), a fileData part   *)
(* whose fileUri starts with the files prefix, and a fileData part whose   *)
(* mimeType is video/mp4 is output as it is: the output part equals the    *)
(* input part, no POST is sent for it and the call does not fail at it.    *)
(***************************************************************************)
PassesThrough(p) ==
  \/ Discriminant(p) = "other"
  \/ /\ Discriminant(p) = "fileData"
     /\ IsCanonicalReference(FileUriOf(p)) \/ MimeTypeOf(p) = "video/mp4"

C4_PassthroughInvariance ==
  /\ Returned => \A pos \in Positions :
                   PassesThrough(InputPart(pos)) => OutputPart(pos) = InputPart(pos)
  /\ \A k \in 1..Len(posts) : ~PassesThrough(InputPart(posts[k].at))
  /\ pc = "raised" => ~PassesThrough(part)

\* A call has returned a body whose input has a video/mp4 fileData part of a
\* fileUri that is not canonical
C4_Witness ==
  /\ pc = "done"
  /\ Returned
  /\ \E pos \in Positions :
       /\ Discriminant(InputPart(pos)) = "fileData"
       /\ MimeTypeOf(InputPart(pos)) = "video/mp4"
       /\ ~IsCanonicalReference(FileUriOf(InputPart(pos)))
       /\ OutputPart(pos) = InputPart(pos)

(***************************************************************************)
(* C5. A body without a contents key, or with an empty contents list, is   *)
(* returned as it is: the call returns at once a body equal to the input   *)
(* in every key, sends no POST, makes no client and does not fail,         *)
(* whatever other keys the body has.                                       *)
(***************************************************************************)
NoContents == "contents" \notin DOMAIN body \/ Len(body.contents) = 0

C5_NoContentsIdentity ==
  NoContents =>
    /\ pc \in {"start", "done"}
    /\ pc = "start" => ENABLED ReturnEarly
    /\ pc = "done" => result = <<body>>
    /\ ~Failed
    /\ posts = <<>>
    /\ opened = 0

\* A call has returned a body that has other keys and no contents key
C5_Witness ==
  /\ pc = "done"
  /\ "contents" \notin DOMAIN body
  /\ "tools" \in DOMAIN body
  /\ Returned

(***************************************************************************)
(* C6. What is outside the parts is carried through. A returned body has   *)
(* the keys of the input, each but contents with the input's value; a      *)
(* content without parts, or with an empty parts list, is output as it is; *)
(* any other content keeps its keys and, but for parts, their values; and  *)
(* the output of a content depends on that content alone: two contents of  *)
(* one body with the same parts, whose uploads got the same answers, have  *)
(* the same output parts.                                                  *)
(***************************************************************************)
\* The answers to the POSTs sent for the parts of the i-th content
AnswersOf(i) ==
  [j \in 1..Len(InputParts(i)) |->
     IF PostsAt(<<i, j>>) = {} THEN <<>>
     ELSE posts[CHOOSE k \in PostsAt(<<i, j>>) : TRUE].response]

C6_CarriedThrough ==
  (Returned /\ Truthy(contents)) =>
    /\ DOMAIN result[1] = DOMAIN body
    /\ \A key \in DOMAIN body \ {"contents"} : result[1][key] = body[key]
    /\ Len(OutputContents) = Len(contents)
    /\ \A i \in 1..Len(contents) :
         IF Truthy(InputParts(i))
         THEN /\ DOMAIN OutputContents[i] = DOMAIN contents[i]
              /\ \A key \in DOMAIN contents[i] \ {"parts"} :
                   OutputContents[i][key] = contents[i][key]
         ELSE OutputContents[i] = contents[i]
    /\ \A i, k \in 1..Len(contents) :
         (Truthy(InputParts(i)) /\ InputParts(i) = InputParts(k) /\ AnswersOf(i) = AnswersOf(k))
           => OutputContents[i].parts = OutputContents[k].parts

\* A call has returned a body with other keys, of a content without a parts key
\* and a content with an uploaded part
C6_Witness ==
  /\ pc = "done"
  /\ Returned
  /\ "tools" \in DOMAIN body
  /\ Len(contents) = 2
  /\ \E i \in 1..2 : "parts" \notin DOMAIN contents[i]
  /\ posts # <<>>

(***************************************************************************)
(* C7. For every handle or fileUri that is a Drive reference (drive:       *)
(* followed by zero or more slashes) the driveFileId of the POST is what   *)
(* follows drive: and every slash after it.                                *)
(***************************************************************************)
C7_DriveIdNormalized ==
  \A k \in 1..Len(posts) :
    LET p == InputPart(posts[k].at)
    IN  (Discriminant(p) \in {"storedData", "fileData"} /\ IsDriveReference(ReferenceOf(p))) =>
          /\ "driveFileId" \in DOMAIN posts[k].json
          /\ posts[k].json.driveFileId = DriveIdOf(ReferenceOf(p))

(***************************************************************************)
(* C8. A storedData handle (no NotebookLM or Drive reference) is a Blob    *)
(* reference exactly when it has the shape                                 *)
(* http(s)://<anything>/board/blobs/<uuid>, the uuid in hex digits of      *)
(* either case: for such a handle the POST carries the final path segment  *)
(* as blobId, and the access token, and nothing else; for any other        *)
(* handle no POST is sent.                                                 *)
(***************************************************************************)
\* The places the loop has reached: finished with, or at, past the transform
Reached == Finished \cup (IF pc \in {"post", "raised"} THEN {Cursor} ELSE {})

C8_BlobRecognized ==
  \A pos \in Positions :
    LET p == InputPart(pos)
        h == HandleOf(p)
    IN  (Discriminant(p) = "storedData" /\ ~IsNotebookLMReference(h) /\ ~IsDriveReference(h)) =>
          IF IsBlobReference(h)
          THEN pos \in Reached =>
                 /\ Cardinality(PostsAt(pos)) = 1
                 /\ \A k \in PostsAt(pos) :
                      posts[k].json = [blobId |-> FinalSegment(h), accessToken |-> access_token]
          ELSE PostsAt(pos) = {}

(***************************************************************************)
(* C9. A storedData part whose handle starts with                          *)
(* https://notebooklm.google.com/notebook/ becomes {text: handle}: no POST *)
(* is sent for it and the call does not fail at it, also when the handle   *)
(* ends like a Blob reference.                                             *)
(***************************************************************************)
C9_NotebookLMBecomesText ==
  \A pos \in Positions :
    LET p == InputPart(pos)
    IN  (Discriminant(p) = "storedData" /\ IsNotebookLMReference(HandleOf(p))) =>
          /\ PostsAt(pos) = {}
          /\ ~(pc = "raised" /\ Cursor = pos)
          /\ Returned => OutputPart(pos) = [text |-> HandleOf(p)]

\* A call has returned the text of a NotebookLM handle that is a Blob reference too
C9_Witness ==
  /\ pc = "done"
  /\ Returned
  /\ \E pos \in Positions :
       /\ Discriminant(InputPart(pos)) = "storedData"
       /\ IsNotebookLMReference(HandleOf(InputPart(pos)))
       /\ IsBlobReference(HandleOf(InputPart(pos)))
       /\ OutputPart(pos) = [text |-> HandleOf(InputPart(pos))]

(***************************************************************************)
(* C10. The fileData rules are an ordered list: a canonical fileUri, then  *)
(* mimeType video/mp4, then a Drive fileUri, then failure. A canonical     *)
(* fileUri passes through whatever the mimeType, and a video/mp4 part      *)
(* passes through, with no POST, also when its fileUri is a Drive          *)
(* reference or of no kind; of the other parts, one with a Drive fileUri   *)
(* is uploaded and any other fails.                                        *)
(***************************************************************************)
FileDataDecision(p) ==
  IF IsCanonicalReference(FileUriOf(p)) THEN "pass"
  ELSE IF MimeTypeOf(p) = "video/mp4" THEN "pass"
  ELSE IF IsDriveReference(FileUriOf(p)) THEN "upload"
  ELSE "fail"

C10_FileDataDecisionList ==
  \A pos \in Positions :
    LET p == InputPart(pos)
        failedHere == pc = "raised" /\ Cursor = pos
    IN  Discriminant(p) = "fileData" =>
          CASE FileDataDecision(p) = "pass" ->
                 /\ PostsAt(pos) = {}
                 /\ ~failedHere
                 /\ Returned => OutputPart(pos) = p
            [] FileDataDecision(p) = "upload" ->
                 /\ pos \in Reached =>
                      /\ Cardinality(PostsAt(pos)) = 1
                      /\ \A k \in PostsAt(pos) : "driveFileId" \in DOMAIN posts[k].json
                 /\ failedHere => raised[1].type # "ValueError"
            [] FileDataDecision(p) = "fail" ->
                 /\ PostsAt(pos) = {}
                 /\ pos \notin Finished
                 /\ failedHere => raised[1].type = "ValueError"

\* A call has returned as it was a video/mp4 part whose fileUri is a Drive reference
C10_Witness ==
  /\ pc = "done"
  /\ Returned
  /\ \E pos \in Positions :
       /\ Discriminant(InputPart(pos)) = "fileData"
       /\ MimeTypeOf(InputPart(pos)) = "video/mp4"
       /\ IsDriveReference(FileUriOf(InputPart(pos)))
       /\ OutputPart(pos) = InputPart(pos)

(***************************************************************************)
(* C11. The JSON body of every POST has one of three shapes, each with the *)
(* accessToken: driveFileId alone, driveFileId with driveResourceKey, or   *)
(* blobId alone. A storedData part with a Drive handle sends driveFileId   *)
(* alone (also when its storedData has a resourceKey), one with a Blob     *)
(* handle sends blobId alone, and a fileData part with a Drive fileUri     *)
(* sends driveResourceKey exactly when it carries a resourceKey (a string  *)
(* that is not empty), and with that value.                                *)
(***************************************************************************)
UploadShapes ==
  { {"driveFileId", "accessToken"},
    {"driveFileId", "driveResourceKey", "accessToken"},
    {"blobId", "accessToken"} }

\* The part carries a resource key
CarriesResourceKey(p) ==
  "resourceKey" \in DOMAIN p.fileData /\ p.fileData.resourceKey # ""

RECURSIVE WithoutTrailingSlashes(_)
WithoutTrailingSlashes(s) ==
  IF Len(s) > 0 /\ SubSeq(s, Len(s), Len(s)) = "/"
  THEN WithoutTrailingSlashes(SubSeq(s, 1, Len(s) - 1))
  ELSE s

C12_UploadPost ==
  \A k \in 1..Len(posts) :
    LET post == posts[k]
    IN  /\ post.url = WithoutTrailingSlashes(upstream_base) \o "/v1beta1/uploadGeminiFile"
        /\ "Authorization" \in DOMAIN post.headers
        /\ post.headers["Authorization"] = "Bearer " \o access_token
        /\ "accessToken" \in DOMAIN post.json
        /\ post.json.accessToken = access_token
        /\ "Content-Type" \in DOMAIN post.headers
        /\ post.headers["Content-Type"] = "application/json"
        /\ "Origin" \in DOMAIN post.headers <=> origin # ""
        /\ "Origin" \in DOMAIN post.headers => post.headers["Origin"] = origin

\* A POST has been sent with an Origin header for an upstream_base that ends
\* with a slash
C12_Witness ==
  /\ posts # <<>>
  /\ upstream_base = "https://test.example.com/"
  /\ origin = "http://localhost:3000"
  /\ posts[1].headers["Origin"] = "http://localhost:3000"
  /\ posts[1].url = "https://test.example.com/v1beta1/uploadGeminiFile"

(***************************************************************************)
(* C13. On a successful upload the part is replaced by a fileData part     *)
(* whose fileUri and mimeType come from the response, not from the input   *)
(* part: a fileUrl that does not start with a URL scheme becomes the API   *)
(* base followed by the fileUrl without its leading slash, and a fileUrl   *)
(* that starts with a URL scheme is used as it is.                         *)
(***************************************************************************)
\* The part made so far for the input part at pos, a place the loop has
\* finished with
ProducedPart(pos) ==
  IF pc = "done" THEN OutputPart(pos)
  ELSE IF pos[1] <= Len(transformed_contents) THEN transformed_contents[pos[1]].parts[pos[2]]
  ELSE new_parts[pos[2]]

Letters ==
  {"a", "b", "c", "d", "e", "f", "g", "h", "i", "j", "k", "l", "m",
   "n", "o", "p", "q", "r", "s", "t", "u", "v", "w", "x", "y", "z"}

\* s starts with a URL scheme: letters, then ://
StartsWithUrlScheme(s) ==
  \E n \in 1..Len(s) :
    /\ \A i \in 1..n : SubSeq(s, i, i) \in Letters
    /\ SubSeq(s, n + 1, n + 3) = "://"

\* The absolute URL of a fileUrl
ResolvedFileUrl(file_url) ==
  IF StartsWithUrlScheme(file_url) THEN file_url
  ELSE "https://generativelanguage.googleapis.com/v1beta/" \o WithoutLeadingSlashes(file_url)

C13_UploadedPartFromResponse ==
  \A pos \in Finished :
    \A k \in PostsAt(pos) :
      LET data == posts[k].response[1].json[1]
      IN  "fileUrl" \in DOMAIN data =>
            ProducedPart(pos) = [fileData |-> [fileUri  |-> ResolvedFileUrl(data.fileUrl),
                                               mimeType |-> data.mimeType]]

(***************************************************************************)
(* C14. Whenever a POST is answered with a status of 400 or more, an entry *)
(* of error severity is logged, with the status, the reason, the request   *)
(* as sent (with the accessToken) and the first 500 characters of the      *)
(* response body, and the upload fails: the call raises the status error,  *)
(* returns no body and no part is made of that response. The log has an    *)
(* entry for every such answer and for no other.                           *)
(***************************************************************************)
\* The POSTs answered with an error status, as indices of posts
ErrorAnswers ==
  {k \in 1..Len(posts) : posts[k].outcome = "response" /\ posts[k].response[1].status_code >= 400}

FirstCharacters(s, n) == IF Len(s) > n THEN SubSeq(s, 1, n) ELSE s

C14_ErrorStatusLoggedAndRaised ==
  /\ Len(log) = Cardinality(ErrorAnswers)
  /\ \A k \in ErrorAnswers :
       LET response == posts[k].response[1]
       IN  /\ log = << [level    |-> "error",
                        status   |-> response.status_code,
                        reason   |-> response.reason_phrase,
                        request  |-> posts[k].json,
                        response |-> FirstCharacters(response.text, 500)] >>
           /\ "accessToken" \in DOMAIN log[1].request
           /\ Len(log[1].response) <= 500
           /\ pc = "raised"
           /\ raised = <<[type |-> "HTTPStatusError", message |-> response.reason_phrase]>>
           /\ ~Returned
           /\ k = Len(posts)
           /\ posts[k].at = <<ci, pi>>
           /\ Len(new_parts) = pi - 1

\* A call has raised for an answer of status 404 whose body is longer than 500
\* characters, after logging 500 of them
C14_Witness ==
  /\ pc = "raised"
  /\ posts # <<>>
  /\ posts[Len(posts)].outcome = "response"
  /\ posts[Len(posts)].response[1].status_code = 404
  /\ Len(posts[Len(posts)].response[1].text) > 500
  /\ Len(log) = 1
  /\ Len(log[1].response) = 500

(***************************************************************************)
(* C15. When the call is given no client, every upload makes a client of   *)
(* its own and closes it however the upload ends (a part returned, an      *)
(* error status, a transport error, a response that is not JSON, a         *)
(* cancellation): a client of its own is open exactly while a POST is      *)
(* awaited, so at most one at a time, and when conform_body has returned   *)
(* or raised as many have been closed as were made.                        *)
(***************************************************************************)
C15_OwnClientReleased ==
  client = "None" =>
    /\ opened = Len(posts)
    /\ \A k \in 1..Len(posts) : posts[k].via = "own"
    /\ opened - closed = (IF pc = "post" THEN 1 ELSE 0)
    /\ pc \in {"done", "raised"} => opened = closed
    /\ \A k \in 1..Len(posts) : posts[k].outcome # "pending" => closed >= k

\* A call without a client has raised for the cancellation of its second
\* upload, and both clients were closed
C15_Witness ==
  /\ client = "None"
  /\ pc = "raised"
  /\ raised[1].type = "CancelledError"
  /\ opened = 2
  /\ closed = 2

(***************************************************************************)
(* C16. When the caller gives a client, conform_body never closes it and   *)
(* makes none of its own, however the call ends (a body returned, an       *)
(* upload failed, a handle unknown), and every POST of the call goes       *)
(* through the caller's client.                                            *)
(***************************************************************************)
C16_CallerClientKept ==
  client = "caller" =>
    /\ closed = 0
    /\ opened = 0
    /\ \A k \in 1..Len(posts) : posts[k].via = "caller"

\* A call with the caller's client has raised for an unknown handle after an
\* upload through that client
C16_Witness ==
  /\ client = "caller"
  /\ pc = "raised"
  /\ raised[1].type = "ValueError"
  /\ Len(posts) = 1
  /\ posts[1].via = "caller"
  /\ AnsweredOk(posts[1])

(***************************************************************************)
(* C17. Nothing is retried. Within one call a part that requires an upload *)
(* (a storedData part with a Drive or Blob handle, a fileData part with a  *)
(* Drive fileUri that is not video/mp4) causes exactly one POST when the   *)
(* loop reaches it and no other part causes any; a failed upload is the    *)
(* last POST of the call; and the number of POSTs is the number of such    *)
(* parts the loop has reached, the failing one included.                   *)
(***************************************************************************)
RequiresUpload(p) ==
  \/ /\ Discriminant(p) = "storedData"
     /\ ~IsNotebookLMReference(HandleOf(p))
     /\ IsDriveReference(HandleOf(p)) \/ IsBlobReference(HandleOf(p))
  \/ /\ Discriminant(p) = "fileData"
     /\ FileDataDecision(p) = "upload"

\* The POSTs are one for each part that requires an upload among the parts the
\* loop has reached, in the order of those parts
C17_NoRetry ==
  LET needed == {pos \in Reached : RequiresUpload(InputPart(pos))}
  IN  /\ Len(posts) = Cardinality(needed)
      /\ \A k \in 1..Len(posts) : posts[k].at \in needed
      /\ \A k \in 1..(Len(posts) - 1) : Before(posts[k].at, posts[k + 1].at)
      /\ \A k \in 1..Len(posts) : UploadFailed(posts[k]) => k = Len(posts)
      /\ Cardinality(in_flight) <= 1

\* A call has raised for its second upload, which got no response, after two
\* POSTs
C17_Witness ==
  /\ pc = "raised"
  /\ Len(posts) = 2
  /\ AnsweredOk(posts[1])
  /\ posts[2].outcome = "transport error"

(***************************************************************************)
(* The messages of expand_veo_error, as the specification reads them       *)
(* (section 4.4): the marker, and the comma-separated list of integers     *)
(* after it.                                                               *)
(***************************************************************************)
ExpandFinished == step \in {"returned", "raised"}

\* The places of msg right after an occurrence of the marker
AfterMarker(msg) ==
  {i + 15 : i \in {j \in 1..(Len(msg) - 14) : SubSeq(msg, j, j + 14) = "Support codes: "}}

IsDigit(msg, i) ==
  i <= Len(msg) /\ SubSeq(msg, i, i) \in {"0", "1", "2", "3", "4", "5", "6", "7", "8", "9"}

\* The place after the digits, and after the blanks, that start at place i
RECURSIVE AfterDigits(_, _)
AfterDigits(msg, i) == IF IsDigit(msg, i) THEN AfterDigits(msg, i + 1) ELSE i
RECURSIVE AfterBlanks(_, _)
AfterBlanks(msg, i) ==
  IF i <= Len(msg) /\ SubSeq(msg, i, i) = " " THEN AfterBlanks(msg, i + 1) ELSE i

\* The integers of the list that starts at place i, as written: an integer,
\* and as long as a comma and an integer follow, the next
RECURSIVE IntegerListAt(_, _)
IntegerListAt(msg, i) ==
  IF ~IsDigit(msg, i) THEN <<>>
  ELSE LET end   == AfterDigits(msg, i)
           comma == AfterBlanks(msg, end)
           next  == AfterBlanks(msg, comma + 1)
       IN  <<SubSeq(msg, i, end - 1)>>
             \o (IF comma <= Len(msg) /\ SubSeq(msg, comma, comma) = ","
                 THEN IntegerListAt(msg, next)
                 ELSE <<>>)

\* The message has the marker with a list of at least one integer after it
HasCodeList(msg) == \E i \in AfterMarker(msg) : IsDigit(msg, i)

\* The codes listed after the first such marker
ListedCodes(msg) ==
  LET at == {i \in AfterMarker(msg) : IsDigit(msg, i)}
  IN  IntegerListAt(msg, CHOOSE i \in at : \A j \in at : i <= j)

\* The number a string of digits denotes
RECURSIVE NumberOf(_)
NumberOf(digits) ==
  IF digits = "" THEN 0
  ELSE 10 * NumberOf(SubSeq(digits, 1, Len(digits) - 1))
         + (CHOOSE d \in 0..9 : SubSeq("0123456789", d + 1, d + 1) = SubSeq(digits, Len(digits), Len(digits)))

Categories ==
  {"child", "celebrity", "unsafe", "dangerous", "hate", "other", "face", "pii",
   "prohibited", "sexual", "toxic", "violence", "vulgar"}

\* The category of a code: the table's, or other for a code not in the table
CategoryOf(code) ==
  IF \E item \in SUPPORT_CODES : item[1] = code
  THEN (CHOOSE item \in SUPPORT_CODES : item[1] = code)[2]
  ELSE "other"

\* The categories of the codes the message lists
ListedCategories(msg) ==
  {CategoryOf(NumberOf(ListedCodes(msg)[i])) : i \in 1..Len(ListedCodes(msg))}

\* a comes before b in the order of sorted strings
Precedes(a, b) ==
  \E n \in 0..Len(a) :
    /\ n < Len(b)
    /\ SubSeq(a, 1, n) = SubSeq(b, 1, n)
    /\ \/ n = Len(a)
       \/ \E x, y \in 1..26 :
            /\ SubSeq("abcdefghijklmnopqrstuvwxyz", x, x) = SubSeq(a, n + 1, n + 1)
            /\ SubSeq("abcdefghijklmnopqrstuvwxyz", y, y) = SubSeq(b, n + 1, n + 1)
            /\ x < y

(***************************************************************************)
(* C18. For every message and model, expand_veo_error returns a dict whose *)
(* error is the message as it was given, with the marker or without and    *)
(* whatever follows the marker: the call never ends in an exception.       *)
(***************************************************************************)
C18_MessagePreserved ==
  ExpandFinished =>
    /\ expand_raised = <<>>
    /\ expanded # <<>>
    /\ "error" \in DOMAIN expanded[1]
    /\ expanded[1].error = error_message

(***************************************************************************)
(* C19. When the message has the marker with a comma-separated list of     *)
(* integers after it, expand_veo_error returns the message with metadata   *)
(* of origin server, kind safety, the model, and as reasons the sorted     *)
(* list, without duplicates, of the categories of all the codes listed: a  *)
(* code of the table has the table's category and any other code has       *)
(* other, and every reason is one of the 13 categories.                    *)
(***************************************************************************)
C19_SafetyReasons ==
  (ExpandFinished /\ HasCodeList(error_message)) =>
    /\ expanded # <<>>
    /\ DOMAIN expanded[1] = {"error", "metadata"}
    /\ DOMAIN expanded[1].metadata = {"origin", "kind", "reasons", "model"}
    /\ expanded[1].metadata.origin = "server"
    /\ expanded[1].metadata.kind = "safety"
    /\ expanded[1].metadata.model = model
    /\ LET rs == expanded[1].metadata.reasons
       IN  /\ {rs[i] : i \in 1..Len(rs)} = ListedCategories(error_message)
           /\ \A i \in 1..(Len(rs) - 1) : Precedes(rs[i], rs[i + 1])
           /\ \A i \in 1..Len(rs) : rs[i] \in Categories

(***************************************************************************)
(* C20. When the message has no marker with a list of integers after it,   *)
(* expand_veo_error returns the dict of the one key error, the message,    *)
(* and a returned dict has a metadata key exactly when the message has the *)
(* marker with at least one code after it.                                 *)
(***************************************************************************)
C20_PlainWithoutCodes ==
  ExpandFinished =>
    /\ ~HasCodeList(error_message) => expanded = <<[error |-> error_message]>>
    /\ expanded # <<>> =>
         ("metadata" \in DOMAIN expanded[1] <=> HasCodeList(error_message))

(***************************************************************************)
(* C21: every part that has a json key is rewritten to exactly             *)
(* {text: json.dumps(value)}, whatever other keys the part has (storedData *)
(* or fileData included), without an upload for it; and json.loads of the  *)
(* text gives back the value.                                              *)
(***************************************************************************)
JsonPositions == {pos \in Finished : "json" \in DOMAIN InputPart(pos)}

C21_JsonBecomesText ==
  \A pos \in JsonPositions :
    LET produced == ProducedPart(pos)
    IN  /\ DOMAIN produced = {"text"}
        /\ produced.text = JsonDumps(InputPart(pos).json)
        /\ JsonLoads(produced.text) = InputPart(pos).json
        /\ PostsAt(pos) = {}

C21_Witness ==
  /\ pc = "done"
  /\ Returned
  /\ \E pos \in JsonPositions :
       /\ "storedData" \in DOMAIN InputPart(pos)
       /\ OutputPart(pos) = [text |-> "\"drive:/x\""]
       /\ posts = <<>>

(***************************************************************************)
(* The vocabulary of the properties of the handlers.                       *)
(***************************************************************************)
HandlerReturned == hpc = "returned"
HandlerRaised == hpc = "raised"

\* execute_step has raised a ValueError in the handler of generate_video
VideoStepFailed ==
  /\ function = GENERATE_VIDEO_FUNCTION
  /\ hpc \in {"expand", "returned", "raised"}
  /\ step # "idle"

(***************************************************************************)
(* C22: once execute_step has raised a ValueError in the handler of        *)
(* generate_video, no exception leaves the handler and nothing is added to *)
(* the agent file system; what the handler returns is the dict             *)
(* expand_veo_error makes of the message and the video model name: its     *)
(* error is the message, and it has safety metadata exactly when the       *)
(* message lists support codes.                                            *)
(***************************************************************************)
C22_VideoErrorReturned ==
  VideoStepFailed =>
    /\ ~HandlerRaised
    /\ handler_raised = <<>>
    /\ file_system.added = <<>>
    /\ HandlerReturned =>
         /\ returned = expanded
         /\ returned[1].error = error_message
         /\ "metadata" \in DOMAIN returned[1] <=> HasCodeList(error_message)
         /\ "metadata" \in DOMAIN returned[1] =>
              /\ returned[1].metadata.kind = "safety"
              /\ returned[1].metadata.model = VIDEO_MODEL_NAME

\* The stream of the call was exhausted without an exception
StreamExhausted ==
  /\ function \in StreamFunctions
  /\ stream # <<>>
  /\ stream.chunks = <<>>
  /\ stream.error = None
  /\ HandlerReturned

\* The parts of the first candidates of the chunks, in stream order
RECURSIVE StreamedParts(_)
StreamedParts(chunks) ==
  IF Len(chunks) = 0 THEN <<>>
  ELSE (IF "candidates" \in DOMAIN Head(chunks) /\ Len(Head(chunks).candidates) > 0
        THEN Head(chunks).candidates[1].content.parts
        ELSE <<>>)
         \o StreamedParts(Tail(chunks))

IsTextPart(p) == "text" \in DOMAIN p
IsThought(p) == IsTextPart(p) /\ "thought" \in DOMAIN p /\ p.thought = TRUE
IsAnswerText(p) == IsTextPart(p) /\ ~IsThought(p)

\* The texts of parts_, joined
RECURSIVE TextOf(_)
TextOf(parts_) == IF Len(parts_) = 0 THEN "" ELSE Head(parts_).text \o TextOf(Tail(parts_))

(***************************************************************************)
(* C23: when its stream is exhausted the handler of generate_text returns  *)
(* {text: T}, T the texts, joined in stream order, of the text parts that  *)
(* are no thoughts among the parts of the first candidate of every chunk;  *)
(* the texts of the thought parts are given to status_cb, in order,        *)
(* between the first status and None; and when no text part that is no     *)
(* thought was streamed, it returns the error No text was generated.       *)
(***************************************************************************)
C23_TextMerged ==
  (StreamExhausted /\ function = GENERATE_TEXT_FUNCTION) =>
    LET streamed == StreamedParts(stream.yielded)
        answers  == SelectSeq(streamed, IsAnswerText)
        thoughts == SelectSeq(streamed, IsThought)
    IN  /\ returned = <<IF Len(answers) = 0
                        THEN [error |-> "No text was generated. Please try again"]
                        ELSE [text |-> TextOf(answers)]>>
        /\ Len(statuses) = Len(thoughts) + 2
        /\ \A i \in 1..Len(thoughts) : statuses[i + 1] = Some(thoughts[i].text)

C23_Witness ==
  /\ StreamExhausted
  /\ function = GENERATE_TEXT_FUNCTION
  /\ Len(stream.yielded) = 2
  /\ stream.yielded[1] = Chunk(<<[text |-> "Hmm let me think...", thought |-> TRUE]>>)
  /\ returned = <<[text |-> " world!"]>>
  /\ statuses = <<Some("Generating Text"), Some("Hmm let me think..."), None>>

\* The generation call of the handler, the stream of generate_text or the
\* execute_step of the other functions, has succeeded and the handler is done
GenerationSucceeded ==
  /\ HandlerReturned
  /\ \/ function = GENERATE_TEXT_FUNCTION /\ StreamExhausted
     \/ /\ function \in StepFunctions
        /\ step_calls # <<>>
        /\ step_calls[Len(step_calls)].outcome = "returned"

\* The status texts a handler gives of its own
DefaultStatusTexts ==
  [f \in StepFunctions \cup {GENERATE_TEXT_FUNCTION} |->
     CASE f = GENERATE_TEXT_FUNCTION -> {"Generating Text", "Researching"}
       [] f = GENERATE_IMAGES_FUNCTION -> {"Generating Image(s)"}
       [] f = GENERATE_VIDEO_FUNCTION -> {"Generating Video"}
       [] f = GENERATE_SPEECH_FUNCTION -> {"Generating Speech"}
       [] f = GENERATE_MUSIC_FUNCTION -> {"Generating Music"}]

\* The caller gave a status_update that is not empty
CallerGaveStatus == "status_update" \in DOMAIN args /\ args.status_update # ""

(***************************************************************************)
(* C24: in the handlers of generate_text, generate_images, generate_video, *)
(* generate_speech_from_text and generate_music_from_text, on a call whose *)
(* generation call succeeds, the first value given to status_cb is the     *)
(* caller's status_update, or the handler's own status text when there is  *)
(* none, and the last value given to it is None.                           *)
(***************************************************************************)
C24_StatusFirstAndCleared ==
  GenerationSucceeded =>
    /\ Len(statuses) >= 2
    /\ statuses[1] # None
    /\ IF CallerGaveStatus THEN statuses[1] = Some(args.status_update)
       ELSE statuses[1][1] \in DefaultStatusTexts[function]
    /\ statuses[Len(statuses)] = None

C24_Witness ==
  /\ GenerationSucceeded
  /\ function = GENERATE_VIDEO_FUNCTION
  /\ statuses = <<Some("Working on it"), None>>
  /\ returned = <<[video |-> "/mnt/out"]>>

(***************************************************************************)
(* C25: uploads go out one after the other in document order: at most one  *)
(* POST is in flight, a POST is sent only when every POST before it has    *)
(* been answered, and while it is in flight every part before its own has  *)
(* been transformed and no part after it has been.                         *)
(***************************************************************************)
C25_UploadsInSequence ==
  /\ Cardinality(in_flight) <= 1
  /\ \A k \in 1..(Len(posts) - 1) :
       /\ Before(posts[k].at, posts[k + 1].at)
       /\ posts[k].outcome # "pending"
  /\ \A k \in 1..Len(posts) : posts[k].outcome = "pending" => posts[k] \in in_flight
  /\ \A p \in in_flight :
       /\ p.at = <<ci, pi>>
       /\ Len(transformed_contents) = ci - 1
       /\ Len(new_parts) = pi - 1

C25_Witness ==
  /\ pc = "post"
  /\ Len(posts) = 2
  /\ posts[1].at[1] = 1
  /\ AnsweredOk(posts[1])
  /\ posts[2].at = <<2, 1>>
  /\ in_flight = {posts[2]}

(***************************************************************************)
(* C26: conform_body on a body that conform_body returned returns, sends   *)
(* no POST, and returns a body equal to the one it was given.              *)
(***************************************************************************)
C26_Idempotent ==
  earlier # <<>> =>
    /\ ~Failed
    /\ posts = <<>>
    /\ (pc = "done" => result = earlier)

(***************************************************************************)
(* C27: no step of conform_body changes the body it was given: the body,   *)
(* and with it its contents, their parts and every part, is after each     *)
(* step, of a call that returns or of one that raises, what it was before. *)
(***************************************************************************)
C27_InputNotMutated == [][body' = body]_vars

C27_Witness ==
  /\ pc = "done"
  /\ Returned
  /\ posts # <<>>
  /\ OutputContents # contents
  /\ \E pos \in Positions : "json" \in DOMAIN InputPart(pos) /\ OutputPart(pos) # InputPart(pos)

\* The parts of a body in the order of its contents
BodyParts(b) ==
  UNION {{b.contents[i].parts[j] : j \in 1..Len(Get(b.contents[i], "parts", <<>>))}
         : i \in 1..Len(Get(b, "contents", <<>>))}

\* A part the provider cannot take: json, storedData, or fileData on Drive
Unresolved(p) ==
  \/ "json" \in DOMAIN p
  \/ "storedData" \in DOMAIN p
  \/ "fileData" \in DOMAIN p /\ "fileUri" \in DOMAIN p.fileData
       /\ Len(p.fileData.fileUri) >= 6 /\ SubSeq(p.fileData.fileUri, 1, 6) = "drive:"

(***************************************************************************)
(* C28: in the handlers of generate_text and generate_and_execute_code,    *)
(* whatever access_token, upstream_base and origin the definition was      *)
(* given, the body of every call of stream_generate_content has no part    *)
(* with a json or storedData key and no fileData part with a drive: URI:   *)
(* it is the body the handler built, when that has none to resolve, or the *)
(* body conform_body returned for it.                                      *)
(***************************************************************************)
C28_ProviderBodyConformed ==
  \A k \in 1..Len(provider_calls) :
    /\ \A p \in BodyParts(provider_calls[k].body) : ~Unresolved(p)
    /\ \/ provider_calls[k].body = BuiltBody(function, args, translated)
       \/ pc = "done" /\ result = <<provider_calls[k].body>>

\* conform_body, called by the handler, has failed: it raised an exception
\* other than the cancellation of the task
ConformFailed ==
  /\ function \in StreamFunctions
  /\ pc = "raised"
  /\ raised[1].type # "CancelledError"

(***************************************************************************)
(* C29: in the handlers of generate_text and generate_and_execute_code,    *)
(* once conform_body has failed, for a handle it does not know or an       *)
(* upload that failed, stream_generate_content is not called, no exception *)
(* leaves the handler, and what the handler returns is the dict of the one *)
(* key error whose text is Failed to resolve data parts: and the message   *)
(* of the exception.                                                       *)
(***************************************************************************)
C29_ConformFailureReturned ==
  ConformFailed =>
    /\ provider_calls = <<>>
    /\ stream = <<>>
    /\ hpc \in {"conform", "returned"}
    /\ handler_raised = <<>>
    /\ HandlerReturned =>
         /\ returned # <<>>
         /\ DOMAIN returned[1] = {"error"}
         /\ returned[1].error = "Failed to resolve data parts: " \o raised[1].message

C29_Witness ==
  /\ ConformFailed
  /\ HandlerReturned
  /\ function = GENERATE_AND_EXECUTE_CODE_FUNCTION
  /\ raised[1].type = "HTTPStatusError"
  /\ posts # <<>>
  /\ provider_calls = <<>>

IsCodeExecutionResult(p) == "codeExecutionResult" \in DOMAIN p

\* The codeExecutionResult parts the stream has yielded, in stream order
CodeExecutionResults == SelectSeq(StreamedParts(stream.yielded), IsCodeExecutionResult)

\* The dict returned is the error of a failed code execution
CodeFailureReturned ==
  /\ "error" \in DOMAIN returned[1]
  /\ StartsWith(returned[1].error, "The code generator tried and failed")

(***************************************************************************)
(* C30: when its stream is exhausted the handler of                        *)
(* generate_and_execute_code goes by the last codeExecutionResult part of  *)
(* the stream: if its outcome is not OUTCOME_OK the handler returns an     *)
(* error and no result, whatever its output is, the empty output included; *)
(* if its outcome is OUTCOME_OK the handler does not return the error of a *)
(* failed execution, whatever failed before it.                            *)
(***************************************************************************)
C30_LastCodeExecutionDecides ==
  (StreamExhausted /\ function = GENERATE_AND_EXECUTE_CODE_FUNCTION
     /\ Len(CodeExecutionResults) > 0) =>
    LET last == CodeExecutionResults[Len(CodeExecutionResults)].codeExecutionResult
    IN  IF last.outcome # "OUTCOME_OK"
        THEN "error" \in DOMAIN returned[1] /\ "result" \notin DOMAIN returned[1]
        ELSE ~CodeFailureReturned

====
